---- MODULE Spec2Model ----
(***************************************************************************)
(* The prompt optimizer script (src/unnamed/part_008): runAPO, its         *)
(* checkpoint file, the report files and the process life cycle            *)
(* (launch, kill, uncaught failure, relaunch with or without --resume),    *)
(* and scoreLeadWithPrompt.                                                *)
(*                                                                         *)
(* MAE and accuracy are integers in hundredths (0.05 is 5).  The language  *)
(* model is an opaque source of values: an evaluation pass returns one of  *)
(* EvalResults, a generation call succeeds or fails.  Evaluation sets are  *)
(* well formed (at least one record, numeric expected scores), and the     *)
(* numeric flags are positive integers.                                    *)
(***************************************************************************)
EXTENDS Integers, Sequences, FiniteSets, TLC

\* ---------------------------------------------------------------- bounds
MaxIterations == 3       \* value given to --iterations
MaxBeamWidth == 2        \* largest value given to --beam
MaxLaunches == 2         \* process launches in one behaviour
MaxLevel == 2            \* evaluation outcomes are levels 0..MaxLevel
EvalSetLength == 2       \* evalSet.length

\* ------------------------------------------------------ program constants
DefaultCandidates == 2   \* DEFAULT_CONFIG.candidatesPerIteration
EarlyStopThreshold == 5  \* DEFAULT_CONFIG.earlyStopThreshold, 0.05
StagnationLimit == 2     \* if (stagnantIterations >= 2) break
Infinity == 1000000      \* report.finalBestScore before the run is finalized

VARIABLES
    \* the operating system's view
    pc,                  \* position of the process in main/runAPO; "off" when none runs
    lastExit,            \* how the last process ended: "none", "ok", "error", "killed"
    launches,            \* number of processes launched so far
    checkpointFile,      \* apo-checkpoint.json
    promptFile,          \* optimized-prompt.txt: the launch that wrote it, 0 if none
    reportFile,          \* apo-report.json: the launch that wrote it, 0 if none
    \* the process's memory (main and runAPO locals)
    config, resume, checkpoint, report, beam, previousBestScore,
    stagnantIterations, iteration, newPrompts, evalIndex, iterationCandidates,
    \* history variables (not program state)
    runId,               \* the logical run the process works on: the launch that started it fresh
    hadCheckpoint,       \* the process has loaded or written a checkpoint
    completed,           \* iterations the logical run has fully completed (checkpoint written)
    loadedKind,          \* what loadCheckpoint found on disk
    procStagnant,        \* consecutive iterations of this process with improvement < threshold
    beamStartLen,        \* length of the beam when the current iteration started
    lowestEvaluated,     \* per logical run, the lowest MAE any evaluation of it returned
    genOutcomes,         \* what each generateText call of generateCandidatePrompts did
    issuedCalls,         \* generateText calls the process has issued
    \* one call of scoreLeadWithPrompt
    scPc,                \* "start", "awaiting" (generateText is pending), "returned"
    scExpected,          \* lead.expectedScore, in tenths
    scResponse,          \* what generateText did
    scPredicted,         \* the value scoreLeadWithPrompt returned, in tenths
    \* one call of evaluatePrompt
    evPc,                \* "start", "batch", "awaiting" (Promise.all is pending), "returned"
    evalSet,             \* the evaluation records, in file order
    subsetSize,          \* the subsetSize argument
    leads, chunks,       \* evaluatePrompt's locals
    chunkIndex,          \* the chunk the for loop is at
    pending,             \* positions of the chunk whose scoring call has not settled
    chunkResults,        \* position of the chunk -> what its callback returned
    predictions,
    evResult,            \* what evaluatePrompt returned
    evCalls,             \* history: record name -> generateText calls issued for it
    evResponse,          \* history: record name -> what generateText did for it
    evFaults,            \* history: calls that did not answer as asked
    \* the web application
    leadsTable,          \* the leads table: lead id -> row
    aiUsage,             \* the ai_usage table: lead id -> number of its records
    workflows,           \* lead id -> scoreLeadWorkflow runs started by enqueueLeads
    channel,             \* events sent on the "leads-updates" channel
    executions,          \* the runs of executeScoring
    uploads,             \* POST /api/leads/upload requests answered so far
    lastUpload,          \* the last answer of POST /api/leads/upload
    \* main's command line
    argv,
    argIndex,
    argConfig,
    argResume,
    argPc,
    argExit,
    \* executeScoring's catch
    thrownError,
    stepError,
    clPc,
    \* the client's caches (useRealtimeLeads)
    leadsCache,
    progressCache,
    serverStatus,
    lastEvent,
    applied,
    \* the same run, had it not been interrupted (for comparing a resume with it)
    twin

vars == <<pc, lastExit, launches, checkpointFile, promptFile, reportFile,
          config, resume, checkpoint, report, beam, previousBestScore,
          stagnantIterations, iteration, newPrompts, evalIndex, iterationCandidates,
          runId, hadCheckpoint, completed, loadedKind, procStagnant,
          beamStartLen, lowestEvaluated, genOutcomes, issuedCalls,
          scPc, scExpected, scResponse, scPredicted,
          evPc, evalSet, subsetSize, leads, chunks, chunkIndex, pending,
          chunkResults, predictions, evResult, evCalls, evResponse, evFaults,
          leadsTable, aiUsage, workflows, channel, executions, uploads, lastUpload,
          argv, argIndex, argConfig, argResume, argPc, argExit,
          thrownError, stepError, clPc,
          leadsCache, progressCache, serverStatus, lastEvent, applied,
          twin>>

osVars == <<lastExit, launches, checkpointFile, promptFile, reportFile>>
memVars == <<config, resume, checkpoint, report, beam, previousBestScore,
             stagnantIterations, iteration, newPrompts, evalIndex, iterationCandidates>>
histVars == <<runId, hadCheckpoint, completed, loadedKind, procStagnant,
              beamStartLen, lowestEvaluated, genOutcomes, issuedCalls>>
scoreVars == <<scPc, scExpected, scResponse, scPredicted>>
apoVars == <<pc, osVars, memVars, histVars>>
evalVars == <<evPc, evalSet, subsetSize, leads, chunks, chunkIndex, pending,
              chunkResults, predictions, evResult, evCalls, evResponse, evFaults>>
webVars == <<leadsTable, aiUsage, workflows, channel, executions, uploads, lastUpload>>
cliVars == <<argv, argIndex, argConfig, argResume, argPc, argExit>>
classifyVars == <<thrownError, stepError, clPc>>
clientVars == <<leadsCache, progressCache, serverStatus, lastEvent, applied>>
otherVars == <<scoreVars, evalVars, webVars, cliVars, classifyVars, clientVars, twin>>

\* ---------------------------------------------------------------- values
Min(a, b) == IF a <= b THEN a ELSE b
Abs(x) == IF x < 0 THEN -x ELSE x

Null == [kind |-> "null"]
NoFile == [kind |-> "none"]
NoExit == [kind |-> "running"]
CorruptFile == [kind |-> "corrupt"]
NoReport == [kind |-> "undefined"]
BASE_PROMPT == <<0, 0>>

\* The evaluation records repeat four leads, with expected scores 2, 5, 8
\* and 10 (scores are in tenths).
ExpectedPattern == <<20, 50, 80, 100>>
EvalLead(i) == [name |-> i, expectedScore |-> ExpectedPattern[((i - 1) % 4) + 1]]

\* evalSubsetSize: null (no --subset), or the number given to --subset.
NoSubset == [given |-> FALSE, n |-> 0]

\* array.slice(0, end) for end >= 0
Slice(array, end) == SubSeq(array, 1, Min(end, Len(array)))

\* const leads = subsetSize ? evalSet.slice(0, subsetSize) : evalSet
\* (null and 0 are both falsy).
SelectLeads(set, subset) ==
    IF subset.given /\ subset.n # 0 THEN Slice(set, subset.n) ELSE set

\* The number of records one evaluation pass of runAPO scores.
RecordsScored(subset) ==
    Len(SelectLeads([i \in 1..EvalSetLength |-> EvalLead(i)], subset))

\* DEFAULT_CONFIG with the overrides of main: every launch is given
\* --iterations MaxIterations and some --beam value, and no --subset.
Configs ==
    [maxIterations : {MaxIterations},
     candidatesPerIteration : {DefaultCandidates},
     beamWidth : 1..MaxBeamWidth,
     earlyStopThreshold : {EarlyStopThreshold},
     evalSubsetSize : {NoSubset}]

\* The same, with --subset 1 as well.
SubsetConfigs ==
    [maxIterations : {MaxIterations},
     candidatesPerIteration : {DefaultCandidates},
     beamWidth : 1..MaxBeamWidth,
     earlyStopThreshold : {EarlyStopThreshold},
     evalSubsetSize : {NoSubset, [given |-> TRUE, n |-> 1]}]

\* What evaluatePrompt can return: {mae, accuracy}, in hundredths.
EvalResults == {[mae |-> 10 + 4 * l, accuracy |-> 100 - 25 * l] : l \in 0..MaxLevel}

\* ------------------------------------------------------- checkpoint file
\* saveCheckpoint: the beam is written without the predictions field.
StripPredictions(b) == [i \in DOMAIN b |-> [b[i] EXCEPT !.predictions = FALSE]]

saveCheckpoint(ckpt) == [ckpt EXCEPT !.beam = StripPredictions(ckpt.beam)]

\* loadCheckpoint: null when the file is missing, unreadable or not JSON.
loadCheckpoint_Throws(file) == IF file.kind = "none" THEN Null ELSE file
loadCheckpoint(file) == IF file.kind = "valid" THEN file ELSE Null

\* The object runAPO hands to saveCheckpoint (run is a history field).
MakeCheckpoint(done) ==
    [kind |-> "valid",
     config |-> config,
     baselineScore |-> report.baselineScore,
     baselineAccuracy |-> report.baselineAccuracy,
     beam |-> beam,
     completedIterations |-> done,
     previousBestScore |-> previousBestScore,
     stagnantIterations |-> stagnantIterations,
     report |-> report,
     run |-> runId]

\* ------------------------------------------------------------------ beam
\* Array.prototype.sort with (a, b) => a.score - b.score: ascending, stable.
InsertSorted(s, x) ==
    LET k == Cardinality({i \in 1..Len(s) : s[i].score <= x.score})
    IN SubSeq(s, 1, k) \o <<x>> \o SubSeq(s, k + 1, Len(s))

RECURSIVE SortBeam_Descending(_)
SortBeam_Descending(b) ==
    IF b = <<>> THEN <<>>
    ELSE LET s == SortBeam_Descending(SubSeq(b, 1, Len(b) - 1))
             x == b[Len(b)]
             k == Cardinality({i \in 1..Len(s) : s[i].score >= x.score})
         IN SubSeq(s, 1, k) \o <<x>> \o SubSeq(s, k + 1, Len(s))

RECURSIVE SortBeam(_)
SortBeam(b) ==
    IF b = <<>> THEN <<>>
    ELSE InsertSorted(SortBeam(SubSeq(b, 1, Len(b) - 1)), b[Len(b)])

\* beam.slice(0, config.beamWidth)
Truncate_KeepAll(b, width) == b
Truncate_KeepLast(b, width) ==
    SubSeq(b, Len(b) - Min(width, Len(b)) + 1, Len(b))
Truncate(b, width) == SubSeq(b, 1, Min(width, Len(b)))

\* const improvement = previousBestScore - bestInBeam.score
Improvement(previous, best) == previous - best

\* if (improvement < threshold) stagnantIterations++ else stagnantIterations = 0
NextStagnant_NoReset(stagnant, improvement, threshold) ==
    IF improvement < threshold THEN stagnant + 1 ELSE stagnant
NextStagnant(stagnant, improvement, threshold) ==
    IF improvement < threshold THEN stagnant + 1 ELSE 0

\* if (stagnantIterations >= 2) break
EarlyStop_Late(stagnant) == stagnant >= StagnationLimit + 1
EarlyStop(stagnant) == stagnant >= StagnationLimit

\* startIteration = checkpoint.completedIterations + 1
StartIteration_Repeat(ckpt) == ckpt.completedIterations
StartIteration(ckpt) == ckpt.completedIterations + 1

\* On resume only beam[0] is evaluated again (1 is the first index here).
ReevaluatedIndices_All(b) == DOMAIN b
ReevaluatedIndices_None(b) == {}
ReevaluatedIndices(b) == {1}

\* generateCandidatePrompts: one generateText call per i < count; the text of
\* a call that resolves is pushed, a call that rejects is logged and skipped.
\* A prompt is named by the call that produced it.
generateCandidatePrompts_StopAtFailure(outcomes) ==
    LET ok(i) == \A j \in 1..i : outcomes[j] = "ok"
    IN SelectSeq([i \in DOMAIN outcomes |-> i], ok)
generateCandidatePrompts(outcomes) ==
    LET ok(i) == outcomes[i] = "ok"
    IN SelectSeq([i \in DOMAIN outcomes |-> i], ok)

\* ---------------------------------------------------- the web application
MaxLeads == 2            \* distinct leads (identities) in the behaviour
MaxExecutions == 2       \* runs of executeScoring in the behaviour
MaxUploads == 2          \* upload requests in the behaviour
MaxRows == 2             \* valid rows of one uploaded file
NoScore == -1            \* score IS NULL

LeadIds == 1..MaxLeads

\* The valid rows of an uploaded file, each row named by its identity.
CsvFiles == UNION {[1..n -> LeadIds] : n \in 0..MaxRows}

\* The rows of the leads table that have one identity (first name, last
\* name, job title, account name): `copies` of them are stored, and the
\* other fields are those of the row. status defaults to 'pending', score,
\* error_message and processed_at to NULL.
NoRow == [stored |-> FALSE, copies |-> 0, status |-> "none", score |-> NoScore,
          errorMessage |-> "null", processedAt |-> "null"]
PendingRow ==
    [stored |-> TRUE, copies |-> 1, status |-> "pending", score |-> NoScore,
     errorMessage |-> "null", processedAt |-> "null"]

\* SupabaseLeadRepository.create: one INSERT ... ON CONFLICT DO NOTHING on
\* the identity for the rows of the file, in order; the rows that were
\* inserted are returned.
InsertRow_NoConflictCheck(table, id) ==
    [table EXCEPT ![id] = [PendingRow EXCEPT !.copies = table[id].copies + 1]]
InsertRow(table, id) ==
    IF table[id].stored THEN table
    ELSE [table EXCEPT ![id] = [PendingRow EXCEPT !.copies = table[id].copies + 1]]
RECURSIVE InsertUpTo(_, _, _)
InsertUpTo(table, rows, n) ==
    IF n = 0 THEN table ELSE InsertRow(InsertUpTo(table, rows, n - 1), rows[n])
create(table, rows) == InsertUpTo(table, rows, Len(rows))
InsertedBy(table, rows) ==
    {id \in LeadIds : create(table, rows)[id].copies > table[id].copies}

\* SupabaseLeadRepository.updateStatus
updateStatus(table, id, status, errorMessage) ==
    IF ~table[id].stored THEN table
    ELSE [table EXCEPT ![id].status = status,
                       ![id].errorMessage =
                           IF errorMessage # "undefined" THEN errorMessage ELSE @,
                       ![id].processedAt =
                           IF status \in {"completed", "error"} THEN "now" ELSE @]

\* SupabaseLeadRepository.updateScore
updateScore(table, id, score) ==
    IF ~table[id].stored THEN table
    ELSE [table EXCEPT ![id].score = score, ![id].status = "completed",
                       ![id].processedAt = "now"]

\* WorkflowQueueService.enqueueLeads: start(scoreLeadWorkflow, [leadId]) per id.
enqueueLeads(started, leadIds) ==
    [id \in LeadIds |-> IF id \in leadIds THEN started[id] + 1 ELSE started[id]]

\* broadcastLeadsUpdated: nothing for an empty list, else one "leads-updated"
\* event with the leads.
broadcastLeadsUpdated(sent, updated) ==
    IF updated = {} THEN sent
    ELSE Append(sent, [event |-> "leads-updated", leads |-> updated])

\* new UploadLeadsCommand(repository): the route passes no queue service.
QueueServiceOfRoute == "undefined"

\* What scoringService.scoreLead does: a score (in tenths), or it throws.
ScoringOutcomes ==
    [kind : {"score"}, score : {35, 80}]
    \cup [kind : {"throws"}, message : {"Rate limited", "Failed to parse score"}]

IdleExecution == [pc |-> "idle", leadId |-> 0, lead |-> "none", score |-> NoScore,
                  tokens |-> "unset", error |-> "none"]

WebIdle ==
    /\ leadsTable = [id \in LeadIds |-> NoRow]
    /\ aiUsage = [id \in LeadIds |-> 0]
    /\ workflows = [id \in LeadIds |-> 0]
    /\ channel = <<>>
    /\ executions = [e \in 1..MaxExecutions |-> IdleExecution]
    /\ uploads = 0
    /\ lastUpload = [status |-> 0, count |-> 0, leadIds |-> {}]

\* ------------------------------------------------------- main's command line
MaxArgs == 3             \* longest process.argv.slice(2)
DefaultIterations == 5   \* DEFAULT_CONFIG.maxIterations
DefaultBeamWidth == 2    \* DEFAULT_CONFIG.beamWidth

\* An argument is the text of `body`, with "--" in front when `dashes`.
ArgBodies == {"resume", "iterations", "candidates", "beam", "subset", "verbose", "3", ""}
Args == [dashes : BOOLEAN, body : ArgBodies]
Argvs == UNION {[1..n -> Args] : n \in 0..MaxArgs}

Number(n) == [kind |-> "number", n |-> n]
NaN == [kind |-> "NaN"]

\* parseInt(value, 10) of an argument without "--" in front
parseInt(body) == IF body = "3" THEN Number(3) ELSE NaN

DEFAULT_CONFIG ==
    [maxIterations |-> Number(DefaultIterations),
     candidatesPerIteration |-> Number(DefaultCandidates),
     beamWidth |-> Number(DefaultBeamWidth),
     earlyStopThreshold |-> Number(EarlyStopThreshold),
     evalSubsetSize |-> Null]

\* The field that the switch of main assigns for a key.
FieldOf == [iterations |-> "maxIterations", candidates |-> "candidatesPerIteration",
            beam |-> "beamWidth", subset |-> "evalSubsetSize"]

\* arg.replace("--", ""): no body holds "--", so only the front can go.
KeyOf(arg) == arg.body

\* key && value && !value.startsWith("--")
TakesValue(args, i) ==
    /\ KeyOf(args[i]) # ""
    /\ i + 1 <= Len(args)
    /\ (args[i + 1].dashes \/ args[i + 1].body # "")
    /\ ~args[i + 1].dashes

CommandLineIdle ==
    /\ argv = <<>>
    /\ argIndex = 0
    /\ argConfig = Null
    /\ argResume = FALSE
    /\ argPc = "off"
    /\ argExit = NoExit

\* ------------------------------------------------- executeScoring's catch
MaxMessageLen == 2       \* pieces of an error message
MaxHeaderLen == 3        \* characters of a Retry-After header

\* An error message is a sequence of pieces of text.
MessagePieces == {"Lead not found:", "Rate Limit", "rate limit", "429", "timeout"}
Messages == UNION {[1..n -> MessagePieces] : n \in 1..MaxMessageLen}
HeaderChars == {"0", "1", ".", "x"}
HeaderTexts == UNION {[1..n -> HeaderChars] : n \in 0..MaxHeaderLen}

\* What an error can carry as `headers`: nothing, an object without get, or
\* Headers whose get("Retry-After") gives a text or null.
NoRetryAfter == [kind |-> "Headers", has |-> FALSE, text |-> <<>>]
HeadersValues ==
    {[kind |-> "absent"], [kind |-> "object"], NoRetryAfter}
    \cup [kind : {"Headers"}, has : {TRUE}, text : HeaderTexts]

\* The values that command.execute(leadId) can throw.
ThrownValues ==
    [isError : BOOLEAN, message : Messages, status : {0, 429, 500},
     causeStatus : {0, 429}, headers : {[kind |-> "absent"]}]
    \cup [isError : {TRUE}, message : {<<"timeout">>, <<"429">>}, status : {0},
          causeStatus : {0}, headers : HeadersValues]

toLowerCase(piece) ==
    CASE piece = "Rate Limit" -> "rate limit"
      [] piece = "Lead not found:" -> "lead not found:"
      [] OTHER -> piece
startsWith(message, piece) == Len(message) >= 1 /\ message[1] = piece
includes(message, piece) == \E i \in DOMAIN message : toLowerCase(message[i]) = piece

isRateLimitError_MessageOnly(error) ==
    /\ error.isError
    /\ includes(error.message, "rate limit") \/ includes(error.message, "429")
isRateLimitError(error) ==
    /\ error.isError
    /\ \/ includes(error.message, "rate limit") \/ includes(error.message, "429")
       \/ error.status = 429
       \/ error.causeStatus = 429

\* parseInt(retryAfter, 10): the digits the text begins with, NaN when none.
IsDigit(c) == c \in {"0", "1"}
RECURSIVE DigitsAt(_, _)
DigitsAt(text, i) ==
    IF i <= Len(text) /\ IsDigit(text[i]) THEN 1 + DigitsAt(text, i + 1) ELSE 0
RECURSIVE DecimalUpTo(_, _)
DecimalUpTo(text, n) ==
    IF n = 0 THEN 0
    ELSE 10 * DecimalUpTo(text, n - 1) + (IF text[n] = "1" THEN 1 ELSE 0)
parseIntText(text) ==
    IF DigitsAt(text, 1) = 0 THEN NaN ELSE Number(DecimalUpTo(text, DigitsAt(text, 1)))

OneMinute == [unit |-> "m", n |-> 1]
Seconds(n) == [unit |-> "s", n |-> n]
extractRetryAfter(error) ==
    IF /\ error.isError
       /\ error.headers.kind = "Headers"
       /\ error.headers.has
       /\ error.headers.text # <<>>
       /\ parseIntText(error.headers.text) # NaN
    THEN Seconds(parseIntText(error.headers.text).n)
    ELSE OneMinute

\* The catch clause of executeScoring: what it throws for what execute threw.
Classify(error) ==
    IF error.isError /\ startsWith(error.message, "Lead not found:")
    THEN [kind |-> "FatalError", message |-> error.message]
    ELSE IF isRateLimitError(error)
    THEN [kind |-> "RetryableError", message |-> <<"Rate limited by AI provider">>,
          retryAfter |-> extractRetryAfter(error)]
    ELSE [kind |-> "rethrown", error |-> error]

NoError == [kind |-> "none"]
ClassifyIdle ==
    /\ thrownError = NoError
    /\ stepError = NoError
    /\ clPc = "off"

\* ------------------------------------------------------- the client's caches
MaxEvents == 4           \* status changes reported in the behaviour
MaxCacheEvents == 2      \* arbitrary "leads-updated" events applied in the behaviour
MaxEventLeads == 2       \* leads carried by one event

\* A lead as an event carries it and as the list caches it.
ClientLeads ==
    [id : LeadIds, status : {"pending", "processing", "completed"}, score : {NoScore, 80}]
Events == UNION {[1..n -> ClientLeads] : n \in 0..MaxEventLeads}

\* (a[sort.sortBy] ?? "") for sortBy = 'score': null counts as 0 in b - a.
SortValue(lead) == IF lead.score = NoScore THEN 0 ELSE lead.score

\* toSorted with the comparator of sortBy 'score', sortOrder 'desc' (the
\* table store's default); the sort is stable.
InsertByScore(sorted, lead) ==
    LET k == Cardinality({i \in DOMAIN sorted : SortValue(sorted[i]) >= SortValue(lead)})
    IN SubSeq(sorted, 1, k) \o <<lead>> \o SubSeq(sorted, k + 1, Len(sorted))
RECURSIVE SortedUpTo(_, _)
SortedUpTo(list, n) ==
    IF n = 0 THEN <<>> ELSE InsertByScore(SortedUpTo(list, n - 1), list[n])
toSorted(list) == SortedUpTo(list, Len(list))

\* new Map(updatedLeads.map((lead) => [lead.id, lead])).get(id): the last
\* lead of the event with the id.
HasLead(updatedLeads, id) == \E i \in DOMAIN updatedLeads : updatedLeads[i].id = id
MapGet(updatedLeads, id) ==
    updatedLeads[CHOOSE i \in DOMAIN updatedLeads :
                    /\ updatedLeads[i].id = id
                    /\ \A j \in DOMAIN updatedLeads : updatedLeads[j].id = id => j <= i]

\* The updater of the ["leads"] queries.
NewLeads_None(oldData, updatedLeads) == <<>>
NewLeads(oldData, updatedLeads) ==
    SelectSeq(updatedLeads,
              LAMBDA l : l.id \notin {oldData.leads[i].id : i \in DOMAIN oldData.leads})
MergeLeads(oldData, updatedLeads) ==
    IF oldData = Null THEN oldData
    ELSE LET mergedLeads ==
                 [i \in DOMAIN oldData.leads |->
                     IF HasLead(updatedLeads, oldData.leads[i].id)
                     THEN MapGet(updatedLeads, oldData.leads[i].id)
                     ELSE oldData.leads[i]]
         IN [oldData EXCEPT
                !.leads = toSorted(NewLeads(oldData, updatedLeads) \o mergedLeads),
                !.total = oldData.total + Len(NewLeads(oldData, updatedLeads))]

\* The updater of the ["progress"] query: one turn of the for loop per lead.
Max0(x) == IF x < 0 THEN 0 ELSE x
CountLead(newData, lead) ==
    IF lead.status = "pending"
    THEN [newData EXCEPT !.total = @ + 1, !.pending = @ + 1]
    ELSE IF lead.status = "completed"
    THEN [newData EXCEPT !.processing = Max0(@ - 1), !.completed = @ + 1]
    ELSE IF lead.status = "error"
    THEN [newData EXCEPT !.processing = Max0(@ - 1), !.error = @ + 1]
    ELSE newData
RECURSIVE CountUpTo(_, _, _)
CountUpTo(oldData, updatedLeads, n) ==
    IF n = 0 THEN oldData
    ELSE CountLead(CountUpTo(oldData, updatedLeads, n - 1), updatedLeads[n])
UpdateProgress(oldData, updatedLeads) ==
    IF oldData = Null THEN oldData ELSE CountUpTo(oldData, updatedLeads, Len(updatedLeads))

\* What the two queries hold once loaded with no lead stored.
EmptyLeadsCache ==
    [leads |-> <<>>, total |-> 0, sort |-> [sortBy |-> "score", sortOrder |-> "desc"]]
EmptyProgress == [total |-> 0, pending |-> 0, processing |-> 0, completed |-> 0, error |-> 0]

ClientIdle ==
    /\ leadsCache = Null
    /\ progressCache = Null
    /\ serverStatus = [id \in LeadIds |-> "none"]
    /\ lastEvent = <<>>
    /\ applied = 0

\* ------------------------------------------------------------------ Init
InitAPO ==
    /\ pc = "off"
    /\ lastExit = "none"
    /\ launches = 0
    /\ checkpointFile = NoFile
    /\ promptFile = 0
    /\ reportFile = 0
    /\ config = Null
    /\ resume = FALSE
    /\ checkpoint = Null
    /\ report = NoReport
    /\ beam = <<>>
    /\ previousBestScore = 0
    /\ stagnantIterations = 0
    /\ iteration = 0
    /\ newPrompts = <<>>
    /\ evalIndex = 0
    /\ iterationCandidates = <<>>
    /\ runId = 0
    /\ hadCheckpoint = FALSE
    /\ completed = 0
    /\ loadedKind = "skipped"
    /\ procStagnant = 0
    /\ beamStartLen = 0
    /\ lowestEvaluated = [r \in 1..MaxLaunches |-> Infinity]
    /\ genOutcomes = <<>>
    /\ issuedCalls = 0

\* No call of scoreLeadWithPrompt is looked at.
ScoringIdle ==
    /\ scPc = "idle"
    /\ scExpected = 0
    /\ scResponse = Null
    /\ scPredicted = 0

NoTwin == [pc |-> "none"]

\* No call of evaluatePrompt is looked at.
EvaluationIdle ==
    /\ evPc = "idle"
    /\ evalSet = <<>>
    /\ subsetSize = [given |-> FALSE, n |-> 0]
    /\ leads = <<>>
    /\ chunks = <<>>
    /\ chunkIndex = 0
    /\ pending = {}
    /\ chunkResults = <<>>
    /\ predictions = <<>>
    /\ evResult = Null
    /\ evCalls = <<>>
    /\ evResponse = <<>>
    /\ evFaults = 0

Init ==
    /\ InitAPO
    /\ ScoringIdle
    /\ EvaluationIdle
    /\ WebIdle
    /\ CommandLineIdle
    /\ ClassifyIdle
    /\ ClientIdle
    /\ twin = NoTwin

\* The process is gone: its memory with it.
ProcessEnds(how) ==
    /\ pc' = "off"
    /\ lastExit' = how
    /\ config' = Null
    /\ resume' = FALSE
    /\ checkpoint' = Null
    /\ report' = NoReport
    /\ beam' = <<>>
    /\ previousBestScore' = 0
    /\ stagnantIterations' = 0
    /\ iteration' = 0
    /\ newPrompts' = <<>>
    /\ genOutcomes' = <<>>
    /\ issuedCalls' = 0
    /\ evalIndex' = 0
    /\ iterationCandidates' = <<>>
    /\ procStagnant' = 0
    /\ beamStartLen' = 0
    /\ UNCHANGED <<otherVars, launches, runId, hadCheckpoint, completed, loadedKind, lowestEvaluated>>

\* --------------------------------------------------------------- actions
\* main: parse the flags, call runAPO, which loads the evaluation set and,
\* under --resume, the checkpoint.
Launch(cfg, res) ==
    /\ pc = "off"
    /\ launches < MaxLaunches
    /\ launches' = launches + 1
    /\ config' = cfg
    /\ resume' = res
    /\ checkpoint' = IF res THEN loadCheckpoint(checkpointFile) ELSE Null
    /\ loadedKind' = IF res THEN checkpointFile.kind ELSE "skipped"
    /\ pc' = "init"
    /\ lastExit' = "none"
    /\ runId' = 0
    /\ hadCheckpoint' = FALSE
    /\ completed' = 0
    /\ UNCHANGED <<otherVars, checkpointFile, promptFile, reportFile, report, beam,
                   previousBestScore, stagnantIterations, iteration, newPrompts,
                   evalIndex, iterationCandidates, procStagnant, beamStartLen,
                   lowestEvaluated, genOutcomes, issuedCalls>>

\* loadEvalSet throws (eval_set.csv missing): main's catch exits with 1.
LoadEvalSetFails ==
    /\ pc = "off"
    /\ launches < MaxLaunches
    /\ launches' = launches + 1
    /\ lastExit' = "error"
    /\ runId' = 0
    /\ hadCheckpoint' = FALSE
    /\ completed' = 0
    /\ loadedKind' = "skipped"
    /\ UNCHANGED <<otherVars, pc, checkpointFile, promptFile, reportFile, memVars,
                   procStagnant, beamStartLen, lowestEvaluated, genOutcomes, issuedCalls>>

\* Fresh start: evaluate the baseline, seed the beam with it.
EvaluateBaseline ==
    /\ pc = "init"
    /\ checkpoint = Null
    /\ \E r \in EvalResults :
        /\ report' = [config |-> config,
                      baselineScore |-> r.mae,
                      baselineAccuracy |-> r.accuracy,
                      iterations |-> <<>>,
                      finalBestPrompt |-> BASE_PROMPT,
                      finalBestScore |-> Infinity,
                      finalBestAccuracy |-> 0,
                      improvement |-> 0,
                      totalLLMCalls |-> EvalSetLength]
        /\ beam' = <<[prompt |-> BASE_PROMPT, score |-> r.mae, accuracy |-> r.accuracy,
                      iteration |-> 0, predictions |-> TRUE]>>
        /\ previousBestScore' = r.mae
        /\ lowestEvaluated' = [lowestEvaluated EXCEPT ![launches] = r.mae]
    /\ stagnantIterations' = 0
    /\ iteration' = 1
    /\ runId' = launches
    /\ issuedCalls' = issuedCalls + RecordsScored(config.evalSubsetSize)
    /\ pc' = "saveInit"
    /\ UNCHANGED <<otherVars, osVars, config, resume, checkpoint, newPrompts, evalIndex,
                   iterationCandidates, hadCheckpoint, completed, loadedKind,
                   procStagnant, beamStartLen, genOutcomes>>

\* Resume: restore the state, evaluate beam[0] again for its predictions.
Restore ==
    /\ pc = "init"
    /\ checkpoint # Null
    /\ report' = [checkpoint.report EXCEPT !.totalLLMCalls = @ + EvalSetLength]
    /\ beam' = [i \in DOMAIN checkpoint.beam |->
                  IF i \in ReevaluatedIndices(checkpoint.beam)
                  THEN [checkpoint.beam[i] EXCEPT !.predictions = TRUE]
                  ELSE checkpoint.beam[i]]
    /\ previousBestScore' = checkpoint.previousBestScore
    /\ stagnantIterations' = checkpoint.stagnantIterations
    /\ iteration' = StartIteration(checkpoint)
    /\ runId' = checkpoint.run
    /\ hadCheckpoint' = TRUE
    /\ completed' = checkpoint.completedIterations
    /\ issuedCalls' = issuedCalls + RecordsScored(config.evalSubsetSize)
    /\ pc' = "loop"
    /\ UNCHANGED <<otherVars, osVars, config, resume, checkpoint, newPrompts, evalIndex,
                   iterationCandidates, loadedKind, procStagnant, beamStartLen,
                   lowestEvaluated, genOutcomes>>

\* saveCheckpoint after the baseline evaluation.
SaveInitialCheckpoint ==
    /\ pc = "saveInit"
    /\ checkpointFile' = saveCheckpoint(MakeCheckpoint(0))
    /\ hadCheckpoint' = TRUE
    /\ completed' = 0
    /\ pc' = "loop"
    /\ UNCHANGED <<otherVars, lastExit, launches, promptFile, reportFile, memVars, runId,
                   loadedKind, procStagnant, beamStartLen, lowestEvaluated, genOutcomes,
                   issuedCalls>>

\* for (iteration = startIteration; iteration <= maxIterations; ...): the body
\* starts by asking for candidatesPerIteration prompts.
GenerateCandidates ==
    /\ pc = "loop"
    /\ iteration <= config.maxIterations
    /\ \E outcomes \in [1..config.candidatesPerIteration -> {"ok", "throws"}] :
          /\ genOutcomes' = outcomes
          /\ issuedCalls' = issuedCalls + Len(outcomes)
          /\ newPrompts' = generateCandidatePrompts(outcomes)
    /\ report' = [report EXCEPT !.totalLLMCalls = @ + config.candidatesPerIteration]
    /\ evalIndex' = 0
    /\ iterationCandidates' = <<>>
    /\ beamStartLen' = Len(beam)
    /\ pc' = "evaluate"
    /\ UNCHANGED <<otherVars, osVars, config, resume, checkpoint, beam, previousBestScore,
                   stagnantIterations, iteration, runId, hadCheckpoint, completed,
                   loadedKind, procStagnant, lowestEvaluated>>

\* The loop condition fails: maxIterations is exhausted.
ExitLoop ==
    /\ pc = "loop"
    /\ iteration > config.maxIterations
    /\ pc' = "finalize"
    /\ UNCHANGED <<otherVars, osVars, memVars, histVars>>

\* Evaluate newPrompts[i], push it on the beam and on the iteration's list.
EvaluateCandidate ==
    /\ pc = "evaluate"
    /\ evalIndex < Len(newPrompts)
    /\ \E r \in EvalResults :
        /\ beam' = Append(beam, [prompt |-> <<iteration, newPrompts[evalIndex + 1]>>,
                                 score |-> r.mae, accuracy |-> r.accuracy,
                                 iteration |-> iteration, predictions |-> TRUE])
        /\ iterationCandidates' =
               Append(iterationCandidates, [score |-> r.mae, accuracy |-> r.accuracy])
        /\ lowestEvaluated' =
               [lowestEvaluated EXCEPT ![runId] = Min(@, r.mae)]
    /\ report' = [report EXCEPT !.totalLLMCalls = @ + EvalSetLength]
    /\ issuedCalls' = issuedCalls + RecordsScored(config.evalSubsetSize)
    /\ evalIndex' = evalIndex + 1
    /\ UNCHANGED <<otherVars, pc, osVars, config, resume, checkpoint, previousBestScore,
                   stagnantIterations, iteration, newPrompts, runId, hadCheckpoint,
                   completed, loadedKind, procStagnant, beamStartLen, genOutcomes>>

\* Sort, truncate, record the iteration, update the stagnation counter.
SelectBeam ==
    /\ pc = "evaluate"
    /\ evalIndex = Len(newPrompts)
    /\ LET kept == Truncate(SortBeam(beam), config.beamWidth)
           bestInBeam == kept[1]
           improvement == Improvement(previousBestScore, bestInBeam.score)
       IN /\ beam' = kept
          /\ report' = [report EXCEPT !.iterations =
                           Append(@, [iteration |-> iteration,
                                      candidates |-> iterationCandidates,
                                      bestScore |-> bestInBeam.score,
                                      bestAccuracy |-> bestInBeam.accuracy])]
          /\ stagnantIterations' =
                 NextStagnant(stagnantIterations, improvement, config.earlyStopThreshold)
          /\ procStagnant' =
                 IF previousBestScore - bestInBeam.score < config.earlyStopThreshold
                 THEN procStagnant + 1 ELSE 0
          /\ previousBestScore' = bestInBeam.score
    /\ pc' = "saveIter"
    /\ UNCHANGED <<otherVars, osVars, config, resume, checkpoint, iteration, newPrompts,
                   evalIndex, iterationCandidates, runId, hadCheckpoint, completed,
                   loadedKind, beamStartLen, lowestEvaluated, genOutcomes, issuedCalls>>

\* saveCheckpoint at the end of the iteration.
SaveIterationCheckpoint ==
    /\ pc = "saveIter"
    /\ checkpointFile' = saveCheckpoint(MakeCheckpoint(iteration))
    /\ hadCheckpoint' = TRUE
    /\ completed' = iteration
    /\ pc' = "earlyStop"
    /\ UNCHANGED <<otherVars, lastExit, launches, promptFile, reportFile, memVars, runId,
                   loadedKind, procStagnant, beamStartLen, lowestEvaluated, genOutcomes,
                   issuedCalls>>

\* if (stagnantIterations >= 2) break; otherwise iteration++.
EarlyStopCheck ==
    /\ pc = "earlyStop"
    /\ IF EarlyStop(stagnantIterations)
       THEN pc' = "finalize" /\ iteration' = iteration
       ELSE pc' = "loop" /\ iteration' = iteration + 1
    /\ UNCHANGED <<otherVars, osVars, config, resume, checkpoint, report, beam,
                   previousBestScore, stagnantIterations, newPrompts, evalIndex,
                   iterationCandidates, histVars>>

\* Finalize the report from beam[0].
FinalizedReport(rep, b) ==
    [rep EXCEPT !.finalBestPrompt = b[1].prompt,
                !.finalBestScore = b[1].score,
                !.finalBestAccuracy = b[1].accuracy,
                !.improvement = rep.baselineScore - b[1].score]

Finalize ==
    /\ pc = "finalize"
    /\ report' = FinalizedReport(report, beam)
    /\ pc' = "clear"
    /\ UNCHANGED <<otherVars, osVars, config, resume, checkpoint, beam, previousBestScore,
                   stagnantIterations, iteration, newPrompts, evalIndex,
                   iterationCandidates, histVars>>

\* clearCheckpoint, the last statement of runAPO before it returns.
ClearCheckpoint ==
    /\ pc = "clear"
    /\ checkpointFile' = NoFile
    /\ pc' = "writePrompt"
    /\ UNCHANGED <<otherVars, lastExit, launches, promptFile, reportFile, memVars, histVars>>

\* saveResults: first optimized-prompt.txt ...
WritePrompt ==
    /\ pc = "writePrompt"
    /\ promptFile' = launches
    /\ pc' = "writeReport"
    /\ UNCHANGED <<otherVars, lastExit, launches, checkpointFile, reportFile, memVars, histVars>>

\* ... then apo-report.json; main prints "Done!" and the process exits with 0.
WriteReport ==
    /\ pc = "writeReport"
    /\ reportFile' = launches
    /\ ProcessEnds("ok")
    /\ UNCHANGED <<checkpointFile, promptFile>>

\* writeFileSync throws in saveCheckpoint (the file is left as it was):
\* main's catch logs the error and exits with 1.
SaveCheckpointFails ==
    /\ pc \in {"saveInit", "saveIter"}
    /\ ProcessEnds("error")
    /\ UNCHANGED <<checkpointFile, promptFile, reportFile>>

\* writeFileSync throws in saveResults: main's catch exits with 1.
SaveResultsFails ==
    /\ pc \in {"writePrompt", "writeReport"}
    /\ ProcessEnds("error")
    /\ UNCHANGED <<checkpointFile, promptFile, reportFile>>

\* The operating system ends the process, at any point.
Kill ==
    /\ pc # "off"
    /\ ProcessEnds("killed")
    /\ UNCHANGED <<checkpointFile, promptFile, reportFile>>

\* The process is ended while writeFileSync is writing the checkpoint: the
\* file was truncated and holds a prefix of the JSON text.
KillDuringCheckpointWrite ==
    /\ pc \in {"saveInit", "saveIter"}
    /\ checkpointFile' = CorruptFile
    /\ ProcessEnds("killed")
    /\ UNCHANGED <<promptFile, reportFile>>

Next ==
    \/ \E cfg \in Configs, res \in BOOLEAN : Launch(cfg, res)
    \/ LoadEvalSetFails
    \/ EvaluateBaseline
    \/ Restore
    \/ SaveInitialCheckpoint
    \/ GenerateCandidates
    \/ ExitLoop
    \/ EvaluateCandidate
    \/ SelectBeam
    \/ SaveIterationCheckpoint
    \/ EarlyStopCheck
    \/ Finalize
    \/ ClearCheckpoint
    \/ WritePrompt
    \/ WriteReport
    \/ SaveCheckpointFails
    \/ SaveResultsFails
    \/ Kill
    \/ KillDuringCheckpointWrite

Spec == Init /\ [][Next]_vars

\* ------------------------------------------ one run, with or without --subset
\* The first process of the behaviour, started without --resume.
LaunchWithSubset ==
    /\ launches = 0
    /\ \E cfg \in SubsetConfigs : Launch(cfg, FALSE)

NextCalls ==
    \/ LaunchWithSubset
    \/ EvaluateBaseline
    \/ SaveInitialCheckpoint
    \/ GenerateCandidates
    \/ ExitLoop
    \/ EvaluateCandidate
    \/ SelectBeam
    \/ SaveIterationCheckpoint
    \/ EarlyStopCheck
    \/ Finalize
    \/ ClearCheckpoint
    \/ WritePrompt
    \/ WriteReport

SpecCalls == Init /\ [][NextCalls]_vars

\* ------------------------------------------------- scoreLeadWithPrompt
\* Scores are in tenths: 50 is 5, 100 is 10.
MinScore == 0            \* Math.max(0, ...)
MaxScore == 100          \* Math.min(10, ...)
DefaultScore == 50       \* return 5

NoNumber == -1           \* text.match(...) is null

\* Values a "score" field can hold, and numbers the text can show.  The
\* pattern \d+(\.\d+)? matches no sign, so what it yields is never negative.
ScoreFieldValues == {-30, 0, 35, 75, 100, 120, Infinity}
TextNumbers == {0, 35, 100, 120}

\* The trimmed response text, by what the two parsers make of it:
\*   json        what JSON.parse(text) gives: an object whose score is a
\*               number ("scoreNumber"), a value whose score is no number
\*               ("noScore": {"score": "8"}, {}, 7, "x"), null ("null"), or
\*               a SyntaxError ("invalid");
\*   score       the score field, when it is a number;
\*   firstNumber the first match of /(\d+(?:\.\d+)?)/ in the text.
Texts ==
    [json : {"scoreNumber"}, score : ScoreFieldValues, firstNumber : TextNumbers]
    \cup [json : {"noScore", "invalid"}, score : {0},
          firstNumber : TextNumbers \cup {NoNumber}]
    \cup [json : {"null"}, score : {0}, firstNumber : {NoNumber}]

\* generateText resolves with a text or rejects.
Responses == {[kind |-> "throws"]} \cup [kind : {"text"}, text : Texts]

\* Math.max(0, Math.min(10, x))
Clamp_UpperOnly(x) == IF x > MaxScore THEN MaxScore ELSE x
Clamp(x) ==
    LET m == IF x < MaxScore THEN x ELSE MaxScore
    IN IF m > MinScore THEN m ELSE MinScore

\* The try block around JSON.parse: a numeric score field is returned; a
\* SyntaxError, or the TypeError of reading null.score, enters the catch,
\* which returns the first number of the text if there is one; every other
\* case falls through to the default.
ParseScore(text) ==
    IF text.json = "scoreNumber" THEN Clamp(text.score)
    ELSE IF text.json \in {"invalid", "null"} /\ text.firstNumber # NoNumber
         THEN Clamp(text.firstNumber)
         ELSE DefaultScore

\* scoreLeadWithPrompt: the outer catch returns the default as well.
scoreLeadWithPrompt_ZeroOnError(response) ==
    IF response.kind = "throws" THEN MinScore ELSE ParseScore(response.text)
scoreLeadWithPrompt(response) ==
    IF response.kind = "throws" THEN DefaultScore ELSE ParseScore(response.text)

\* expectedScore of a record: an integer 0..10.
ExpectedScores == {10 * e : e \in 0..10}

InitScore ==
    /\ InitAPO
    /\ EvaluationIdle
    /\ WebIdle
    /\ CommandLineIdle
    /\ ClassifyIdle
    /\ ClientIdle
    /\ twin = NoTwin
    /\ scPc = "start"
    /\ scExpected \in ExpectedScores
    /\ scResponse = Null
    /\ scPredicted = 0

\* await generateText({model, prompt})
CallGenerateText ==
    /\ scPc = "start"
    /\ scPc' = "awaiting"
    /\ UNCHANGED <<apoVars, evalVars, webVars, cliVars, classifyVars, clientVars, twin, scExpected, scResponse, scPredicted>>

\* generateText settles; scoreLeadWithPrompt returns.
ReturnScore ==
    /\ scPc = "awaiting"
    /\ \E response \in Responses :
        /\ scResponse' = response
        /\ scPredicted' = scoreLeadWithPrompt(response)
    /\ scPc' = "returned"
    /\ UNCHANGED <<apoVars, evalVars, webVars, cliVars, classifyVars, clientVars, twin, scExpected>>

NextScore == CallGenerateText \/ ReturnScore

SpecScore == InitScore /\ [][NextScore]_vars

\* ------------------------------------------------------ evaluatePrompt
CHUNK_SIZE == 25         \* const CHUNK_SIZE = 25
Tolerance == 10          \* p.error <= 1
MaxRecords == 27         \* longest evaluation set
MaxFaults == 1           \* calls of one pass that do not answer as asked

\* A prompt scores the four leads 3, 5, 6 and 10 when the model answers as asked.
AnswerPattern == <<30, 50, 60, 100>>

EvalSets == {[i \in 1..n |-> EvalLead(i)] : n \in {1, 4, CHUNK_SIZE, MaxRecords}}

\* The subsetSize argument: null, or the number given to --subset.
SubsetSizes ==
    {NoSubset} \cup [given : {TRUE}, n : {0, 3, CHUNK_SIZE + 1}]

\* chunk(array, size): consecutive slices of at most size elements.
chunk_Whole(array, size) == IF Len(array) = 0 THEN <<>> ELSE <<array>>
RECURSIVE chunk(_, _)
chunk(array, size) ==
    IF Len(array) = 0 THEN <<>>
    ELSE <<SubSeq(array, 1, Min(size, Len(array)))>>
         \o chunk(SubSeq(array, Min(size, Len(array)) + 1, Len(array)), size)

\* What generateText does for a lead: the answer asked for, or, for at most
\* MaxFaults calls of a pass, a rejection or the text "120 points".
AnswerOf(lead) ==
    [kind |-> "text",
     text |-> [json |-> "scoreNumber",
               score |-> AnswerPattern[((lead.name - 1) % 4) + 1],
               firstNumber |-> AnswerPattern[((lead.name - 1) % 4) + 1]]]
FaultResponses ==
    {[kind |-> "throws"]} \cup
    [kind : {"text"},
     text : [json : {"invalid"}, score : {0}, firstNumber : {120}]]

\* The callback of leadChunk.map, once scoreLeadWithPrompt has returned.
PredictionOf_Signed(lead, predicted) ==
    [lead |-> lead, predicted |-> predicted, expected |-> lead.expectedScore,
     error |-> predicted - lead.expectedScore]
PredictionOf(lead, predicted) ==
    [lead |-> lead, predicted |-> predicted, expected |-> lead.expectedScore,
     error |-> Abs(predicted - lead.expectedScore)]

\* predictions.reduce((sum, p) => sum + p.error, 0)
RECURSIVE ErrorsUpTo(_, _)
ErrorsUpTo(preds, n) ==
    IF n = 0 THEN 0 ELSE ErrorsUpTo(preds, n - 1) + preds[n].error
totalError(preds) == ErrorsUpTo(preds, Len(preds))

\* predictions.filter((p) => p.error <= 1).length
withinTolerance_Strict(preds) ==
    Cardinality({i \in DOMAIN preds : preds[i].error < Tolerance})
withinTolerance(preds) ==
    Cardinality({i \in DOMAIN preds : preds[i].error <= Tolerance})

\* The quotient a / b, kept exact as a fraction (0 / 0 is NaN).
Quotient(a, b) == [num |-> a, den |-> b]

InitEval ==
    /\ InitAPO
    /\ ScoringIdle
    /\ WebIdle
    /\ CommandLineIdle
    /\ ClassifyIdle
    /\ ClientIdle
    /\ twin = NoTwin
    /\ evPc = "start"
    /\ evalSet \in EvalSets
    /\ subsetSize \in SubsetSizes
    /\ leads = <<>>
    /\ chunks = <<>>
    /\ chunkIndex = 0
    /\ pending = {}
    /\ chunkResults = <<>>
    /\ predictions = <<>>
    /\ evResult = Null
    /\ evCalls = [i \in DOMAIN evalSet |-> 0]
    /\ evResponse = [i \in DOMAIN evalSet |-> Null]
    /\ evFaults = 0

\* The records to score and their chunks.
ChooseLeads ==
    /\ evPc = "start"
    /\ leads' = SelectLeads(evalSet, subsetSize)
    /\ chunks' = chunk(leads', CHUNK_SIZE)
    /\ chunkIndex' = 1
    /\ evPc' = "batch"
    /\ UNCHANGED <<apoVars, scoreVars, webVars, cliVars, classifyVars, clientVars, twin, evalSet, subsetSize, pending,
                   chunkResults, predictions, evResult, evCalls, evResponse, evFaults>>

\* leadChunk.map(async ...): every callback runs up to its await, so the
\* generateText calls of the chunk are all issued before any of them settles.
IssueBatch ==
    /\ evPc = "batch"
    /\ chunkIndex <= Len(chunks)
    /\ pending' = DOMAIN chunks[chunkIndex]
    /\ chunkResults' = <<>>
    /\ evCalls' = [i \in DOMAIN evCalls |->
                     evCalls[i] + Cardinality({k \in DOMAIN chunks[chunkIndex] :
                                                  chunks[chunkIndex][k].name = i})]
    /\ evPc' = "awaiting"
    /\ UNCHANGED <<apoVars, scoreVars, webVars, cliVars, classifyVars, clientVars, twin, evalSet, subsetSize, leads, chunks,
                   chunkIndex, predictions, evResult, evResponse, evFaults>>

\* One pending call settles (the earliest or the latest issued of those still
\* pending) and its callback returns the prediction record.
SettleCall ==
    /\ evPc = "awaiting"
    /\ pending # {}
    /\ \E k \in {j \in pending : \A i \in pending : j <= i}
                \cup {j \in pending : \A i \in pending : j >= i} :
       LET lead == chunks[chunkIndex][k]
       IN \E response \in {AnswerOf(lead)}
                          \cup (IF evFaults < MaxFaults THEN FaultResponses ELSE {}) :
            /\ chunkResults' = (k :> PredictionOf(lead, scoreLeadWithPrompt(response)))
                               @@ chunkResults
            /\ pending' = pending \ {k}
            /\ evFaults' = IF response = AnswerOf(lead) THEN evFaults ELSE evFaults + 1
            /\ evResponse' = [evResponse EXCEPT ![lead.name] = response]
    /\ UNCHANGED <<apoVars, scoreVars, webVars, cliVars, classifyVars, clientVars, twin, evPc, evalSet, subsetSize, leads, chunks,
                   chunkIndex, predictions, evResult, evCalls>>

\* Promise.all resolves with the results in the order of the chunk:
\* predictions.push(...chunkResults), and the loop goes to the next chunk.
PushChunkResults ==
    /\ evPc = "awaiting"
    /\ pending = {}
    /\ predictions' = predictions \o
                      [k \in DOMAIN chunks[chunkIndex] |-> chunkResults[k]]
    /\ chunkResults' = <<>>
    /\ chunkIndex' = chunkIndex + 1
    /\ evPc' = "batch"
    /\ UNCHANGED <<apoVars, scoreVars, webVars, cliVars, classifyVars, clientVars, twin, evalSet, subsetSize, leads, chunks,
                   pending, evResult, evCalls, evResponse, evFaults>>

\* After the last chunk: mae, accuracy, and the return.
ReturnResult ==
    /\ evPc = "batch"
    /\ chunkIndex > Len(chunks)
    /\ evResult' = [mae |-> Quotient(totalError(predictions), Len(predictions)),
                    accuracy |-> Quotient(withinTolerance(predictions), Len(predictions))]
    /\ evPc' = "returned"
    /\ UNCHANGED <<apoVars, scoreVars, webVars, cliVars, classifyVars, clientVars, twin, evalSet, subsetSize, leads, chunks,
                   chunkIndex, pending, chunkResults, predictions, evCalls, evResponse,
                   evFaults>>

NextEval ==
    \/ ChooseLeads
    \/ IssueBatch
    \/ SettleCall
    \/ PushChunkResults
    \/ ReturnResult

SpecEval == InitEval /\ [][NextEval]_vars

\* ------------------------------------- a resume beside the uninterrupted run
\* One iteration of the loop body on a state {beam, previousBestScore,
\* stagnantIterations, iteration}, given the evaluation results of the prompts
\* it generated: push, sort, truncate, update the stagnation counter.
RunIteration(st, cfg, results) ==
    LET pushed == st.beam \o
            [i \in DOMAIN results |->
                [prompt |-> <<st.iteration, i>>, score |-> results[i].mae,
                 accuracy |-> results[i].accuracy, iteration |-> st.iteration,
                 predictions |-> TRUE]]
        kept == Truncate(SortBeam(pushed), cfg.beamWidth)
        improvement == Improvement(st.previousBestScore, kept[1].score)
    IN [st EXCEPT !.beam = kept,
                  !.stagnantIterations =
                      NextStagnant(@, improvement, cfg.earlyStopThreshold),
                  !.previousBestScore = kept[1].score,
                  !.pc = "earlyStop"]

CandidateResults(n) == UNION {[1..k -> EvalResults] : k \in 0..n}

\* The first process of the behaviour, started without --resume.
LaunchFresh ==
    /\ launches = 0
    /\ \E cfg \in Configs : Launch(cfg, FALSE)

\* The process is interrupted right after it wrote a checkpoint (the initial
\* one or an iteration's).  twin is the process as it would have gone on.
InterruptAfterCheckpoint ==
    /\ twin = NoTwin
    /\ launches = 1
    /\ \/ pc = "earlyStop"
       \/ pc = "loop" /\ iteration = 1
    /\ twin' = [pc |-> pc, config |-> config, beam |-> beam,
                previousBestScore |-> previousBestScore,
                stagnantIterations |-> stagnantIterations,
                iteration |-> iteration,
                finalBestScore |-> Infinity]
    /\ pc' = "off"
    /\ lastExit' = "killed"
    /\ config' = Null
    /\ resume' = FALSE
    /\ checkpoint' = Null
    /\ report' = NoReport
    /\ beam' = <<>>
    /\ previousBestScore' = 0
    /\ stagnantIterations' = 0
    /\ iteration' = 0
    /\ newPrompts' = <<>>
    /\ genOutcomes' = <<>>
    /\ issuedCalls' = 0
    /\ evalIndex' = 0
    /\ iterationCandidates' = <<>>
    /\ procStagnant' = 0
    /\ beamStartLen' = 0
    /\ UNCHANGED <<scoreVars, evalVars, webVars, cliVars, classifyVars, clientVars, launches, checkpointFile, promptFile, reportFile,
                   runId, hadCheckpoint, completed, loadedKind, lowestEvaluated>>

\* The uninterrupted run goes through one iteration.
TwinIteration ==
    /\ twin # NoTwin
    /\ twin.pc = "loop"
    /\ twin.iteration <= twin.config.maxIterations
    /\ \E results \in CandidateResults(twin.config.candidatesPerIteration) :
           twin' = RunIteration(twin, twin.config, results)
    /\ UNCHANGED <<apoVars, scoreVars, evalVars, webVars, cliVars, classifyVars, clientVars>>

\* Its early-stop check.
TwinEarlyStopCheck ==
    /\ twin # NoTwin
    /\ twin.pc = "earlyStop"
    /\ twin' = IF EarlyStop(twin.stagnantIterations)
               THEN [twin EXCEPT !.pc = "finalize"]
               ELSE [twin EXCEPT !.pc = "loop", !.iteration = @ + 1]
    /\ UNCHANGED <<apoVars, scoreVars, evalVars, webVars, cliVars, classifyVars, clientVars>>

\* Its loop ends; its report is finalized from its beam[0].
TwinFinalize ==
    /\ twin # NoTwin
    /\ \/ twin.pc = "finalize"
       \/ twin.pc = "loop" /\ twin.iteration > twin.config.maxIterations
    /\ twin' = [pc |-> "done", config |-> twin.config,
                finalBestScore |-> twin.beam[1].score]
    /\ UNCHANGED <<apoVars, scoreVars, evalVars, webVars, cliVars, classifyVars, clientVars>>

\* The interrupted run is started again with --resume and the same flags.
ResumeSameConfig ==
    /\ twin # NoTwin
    /\ twin.pc = "done"
    /\ launches = 1
    /\ Launch(twin.config, TRUE)

NextResume ==
    \/ LaunchFresh
    \/ EvaluateBaseline
    \/ SaveInitialCheckpoint
    \/ GenerateCandidates
    \/ ExitLoop
    \/ EvaluateCandidate
    \/ SelectBeam
    \/ SaveIterationCheckpoint
    \/ EarlyStopCheck
    \/ Finalize
    \/ InterruptAfterCheckpoint
    \/ TwinIteration
    \/ TwinEarlyStopCheck
    \/ TwinFinalize
    \/ ResumeSameConfig
    \/ Restore

SpecResume == Init /\ [][NextResume]_vars

\* ------------------------------------- uploads and scoring in the web application
\* POST /api/leads/upload with a CSV whose valid rows are `rows`:
\* UploadLeadsCommand.execute stores them and, when it has a queue service,
\* enqueues the stored leads; a throw anywhere is answered with 500.
Upload(rows, dbOk) ==
    /\ uploads < MaxUploads
    /\ uploads' = uploads + 1
    /\ IF rows = <<>>
       THEN /\ lastUpload' = [status |-> 400, count |-> 0, leadIds |-> {}]
            /\ UNCHANGED <<leadsTable, workflows>>
       ELSE IF ~dbOk
       THEN /\ lastUpload' = [status |-> 500, count |-> 0, leadIds |-> {}]
            /\ UNCHANGED <<leadsTable, workflows>>
       ELSE /\ leadsTable' = create(leadsTable, rows)
            /\ workflows' = IF QueueServiceOfRoute # "undefined"
                            THEN enqueueLeads(workflows, InsertedBy(leadsTable, rows))
                            ELSE workflows
            /\ lastUpload' = [status |-> 200,
                               count |-> Cardinality(InsertedBy(leadsTable, rows)),
                               leadIds |-> InsertedBy(leadsTable, rows)]
    /\ UNCHANGED <<apoVars, scoreVars, evalVars, cliVars, classifyVars, clientVars, twin, aiUsage, channel, executions>>

\* The workflow runner runs executeScoring(leadId): ScoreLeadCommand.execute.
StartExecution(e, id) ==
    /\ executions[e].pc = "idle"
    /\ \A f \in 1..(e - 1) : executions[f].pc # "idle"
    /\ executions' = [executions EXCEPT ![e] = [IdleExecution EXCEPT !.pc = "findById",
                                                                    !.leadId = id]]
    /\ UNCHANGED <<apoVars, scoreVars, evalVars, cliVars, classifyVars, clientVars, twin, leadsTable, aiUsage, workflows,
                   channel, uploads, lastUpload>>

\* The two checks that follow findById: the lead exists, and a completed
\* lead is returned as it is.
AfterFindById_NoEarlyReturn(execution, row) ==
    IF ~row.stored THEN [execution EXCEPT !.pc = "thrown", !.error = "Lead not found"]
    ELSE [execution EXCEPT !.pc = "updateStatus", !.lead = row.status]
AfterFindById(execution, row) ==
    IF ~row.stored THEN [execution EXCEPT !.pc = "thrown", !.error = "Lead not found"]
    ELSE IF row.status = "completed"
         THEN [execution EXCEPT !.pc = "returned", !.lead = row.status, !.score = row.score,
                                !.tokens = "0"]
         ELSE [execution EXCEPT !.pc = "updateStatus", !.lead = row.status]

\* const lead = await this.leadRepository.findById(leadId), and the two
\* checks that follow it.
FindById(e, dbOk) ==
    /\ executions[e].pc = "findById"
    /\ executions' = [executions EXCEPT ![e] =
            IF ~dbOk THEN [@ EXCEPT !.pc = "thrown", !.error = "database error"]
            ELSE AfterFindById(@, leadsTable[executions[e].leadId])]
    /\ UNCHANGED <<apoVars, scoreVars, evalVars, cliVars, classifyVars, clientVars, twin, leadsTable, aiUsage, workflows,
                   channel, uploads, lastUpload>>

\* await this.leadRepository.updateStatus(leadId, "processing"), outside the try.
MarkProcessing(e, dbOk) ==
    /\ executions[e].pc = "updateStatus"
    /\ IF dbOk
       THEN /\ leadsTable' = updateStatus(leadsTable, executions[e].leadId,
                                          "processing", "undefined")
            /\ executions' = [executions EXCEPT ![e].pc = "scoreLead"]
       ELSE /\ executions' = [executions EXCEPT ![e].pc = "thrown",
                                                ![e].error = "database error"]
            /\ UNCHANGED leadsTable
    /\ UNCHANGED <<apoVars, scoreVars, evalVars, cliVars, classifyVars, clientVars, twin, aiUsage, workflows, channel,
                   uploads, lastUpload>>

\* const result = await this.scoringService.scoreLead(lead)
ScoreLead(e, outcome) ==
    /\ executions[e].pc = "scoreLead"
    /\ executions' = [executions EXCEPT ![e] =
            IF outcome.kind = "score"
            THEN [@ EXCEPT !.pc = "updateScore", !.score = outcome.score,
                           !.tokens = "result.inputTokens, result.outputTokens"]
            ELSE [@ EXCEPT !.pc = "catch", !.error = outcome.message]]
    /\ UNCHANGED <<apoVars, scoreVars, evalVars, cliVars, classifyVars, clientVars, twin, leadsTable, aiUsage, workflows,
                   channel, uploads, lastUpload>>

\* await this.leadRepository.updateScore(leadId, result.score)
UpdateScore(e, dbOk) ==
    /\ executions[e].pc = "updateScore"
    /\ IF dbOk
       THEN /\ leadsTable' = updateScore(leadsTable, executions[e].leadId,
                                         executions[e].score)
            /\ executions' = [executions EXCEPT ![e].pc = "create"]
       ELSE /\ executions' = [executions EXCEPT ![e].pc = "catch",
                                                ![e].error = "database error"]
            /\ UNCHANGED leadsTable
    /\ UNCHANGED <<apoVars, scoreVars, evalVars, cliVars, classifyVars, clientVars, twin, aiUsage, workflows, channel,
                   uploads, lastUpload>>

\* await this.aiUsageRepository.create({...}), then the return.
CreateUsage(e, dbOk) ==
    /\ executions[e].pc = "create"
    /\ IF dbOk
       THEN /\ aiUsage' = [aiUsage EXCEPT ![executions[e].leadId] = @ + 1]
            /\ executions' = [executions EXCEPT ![e].pc = "returned"]
       ELSE /\ executions' = [executions EXCEPT ![e].pc = "catch",
                                                ![e].error = "database error"]
            /\ UNCHANGED aiUsage
    /\ UNCHANGED <<apoVars, scoreVars, evalVars, cliVars, classifyVars, clientVars, twin, leadsTable, workflows, channel,
                   uploads, lastUpload>>

\* The catch clause: updateStatus(leadId, "error", errorMessage), then the
\* error is thrown again; when updateStatus throws, its error leaves execute.
MarkError(e, dbOk) ==
    /\ executions[e].pc = "catch"
    /\ IF dbOk
       THEN /\ leadsTable' = updateStatus(leadsTable, executions[e].leadId,
                                          "error", executions[e].error)
            /\ executions' = [executions EXCEPT ![e].pc = "thrown"]
       ELSE /\ executions' = [executions EXCEPT ![e].pc = "thrown",
                                                ![e].error = "database error"]
            /\ UNCHANGED leadsTable
    /\ UNCHANGED <<apoVars, scoreVars, evalVars, cliVars, classifyVars, clientVars, twin, aiUsage, workflows, channel,
                   uploads, lastUpload>>

\* executeScoring returns or throws, and scoreLeadWorkflow with it.
WorkflowEnds(e) ==
    /\ executions[e].pc \in {"returned", "thrown"}
    /\ executions' = [executions EXCEPT ![e].pc =
                         IF executions[e].pc = "returned" THEN "done" ELSE "failed"]
    /\ UNCHANGED <<apoVars, scoreVars, evalVars, cliVars, classifyVars, clientVars, twin, leadsTable, aiUsage, workflows,
                   channel, uploads, lastUpload>>

NextWeb ==
    \/ \E rows \in CsvFiles, dbOk \in BOOLEAN : Upload(rows, dbOk)
    \/ \E e \in 1..MaxExecutions, id \in LeadIds : StartExecution(e, id)
    \/ \E e \in 1..MaxExecutions, dbOk \in BOOLEAN : FindById(e, dbOk)
    \/ \E e \in 1..MaxExecutions, dbOk \in BOOLEAN : MarkProcessing(e, dbOk)
    \/ \E e \in 1..MaxExecutions, outcome \in ScoringOutcomes : ScoreLead(e, outcome)
    \/ \E e \in 1..MaxExecutions, dbOk \in BOOLEAN : UpdateScore(e, dbOk)
    \/ \E e \in 1..MaxExecutions, dbOk \in BOOLEAN : CreateUsage(e, dbOk)
    \/ \E e \in 1..MaxExecutions, dbOk \in BOOLEAN : MarkError(e, dbOk)
    \/ \E e \in 1..MaxExecutions : WorkflowEnds(e)

SpecWeb == Init /\ [][NextWeb]_vars

\* -------------------------------------------------------------------- main
InitArgs ==
    /\ InitAPO
    /\ ScoringIdle
    /\ EvaluationIdle
    /\ WebIdle
    /\ ClassifyIdle
    /\ ClientIdle
    /\ twin = NoTwin
    /\ argv \in Argvs
    /\ argIndex = 1
    /\ argConfig = DEFAULT_CONFIG
    /\ argResume = FALSE
    /\ argPc = "loop"
    /\ argExit = NoExit

\* One turn of `for (let i = 0; i < args.length; i++)`; argIndex is i + 1.
ParseArg ==
    /\ argPc = "loop"
    /\ argIndex <= Len(argv)
    /\ LET arg == argv[argIndex]
           key == KeyOf(arg)
       IN IF arg = [dashes |-> TRUE, body |-> "resume"]
          THEN /\ argResume' = TRUE
               /\ argIndex' = argIndex + 1
               /\ UNCHANGED argConfig
          ELSE IF TakesValue(argv, argIndex) /\ key \in DOMAIN FieldOf
          THEN /\ argConfig' = [argConfig EXCEPT ![FieldOf[key]] =
                                    parseInt(argv[argIndex + 1].body)]
               /\ argIndex' = argIndex + 2
               /\ UNCHANGED argResume
          ELSE /\ argIndex' = argIndex + 1
               /\ UNCHANGED <<argConfig, argResume>>
    /\ UNCHANGED <<apoVars, scoreVars, evalVars, webVars, classifyVars, clientVars, twin, argv, argPc, argExit>>

\* The loop ends: runAPO(config, resume) is called.
CallRunAPO ==
    /\ argPc = "loop"
    /\ argIndex > Len(argv)
    /\ argPc' = "runAPO"
    /\ UNCHANGED <<apoVars, scoreVars, evalVars, webVars, classifyVars, clientVars, twin, argv, argIndex, argConfig,
                   argResume, argExit>>

\* runAPO and saveResults return, main returns and the process ends (0); or
\* one of them throws and the catch calls process.exit(1).
MainEnds(outcome) ==
    /\ argPc = "runAPO"
    /\ argPc' = outcome
    /\ argExit' = IF outcome = "returned" THEN 0 ELSE 1
    /\ UNCHANGED <<apoVars, scoreVars, evalVars, webVars, classifyVars, clientVars, twin, argv, argIndex, argConfig,
                   argResume>>

NextArgs ==
    \/ ParseArg
    \/ CallRunAPO
    \/ \E outcome \in {"returned", "thrown"} : MainEnds(outcome)

SpecArgs == InitArgs /\ [][NextArgs]_vars

\* ---------------------------------------------------------- executeScoring
InitClassify ==
    /\ InitAPO
    /\ ScoringIdle
    /\ EvaluationIdle
    /\ WebIdle
    /\ CommandLineIdle
    /\ ClientIdle
    /\ twin = NoTwin
    /\ thrownError = NoError
    /\ stepError = NoError
    /\ clPc = "execute"

\* await command.execute(leadId) throws.
ExecuteThrows(error) ==
    /\ clPc = "execute"
    /\ thrownError' = error
    /\ clPc' = "catch"
    /\ UNCHANGED <<apoVars, scoreVars, evalVars, webVars, cliVars, clientVars, twin, stepError>>

\* The catch clause throws a FatalError, a RetryableError or the error itself.
CatchThrows ==
    /\ clPc = "catch"
    /\ stepError' = Classify(thrownError)
    /\ clPc' = "thrown"
    /\ UNCHANGED <<apoVars, scoreVars, evalVars, webVars, cliVars, clientVars, twin, thrownError>>

NextClassify ==
    \/ \E error \in ThrownValues : ExecuteThrows(error)
    \/ CatchThrows

SpecClassify == InitClassify /\ [][NextClassify]_vars

\* ------------------------------------------------------------ useRealtimeLeads
InitClient ==
    /\ InitAPO
    /\ ScoringIdle
    /\ EvaluationIdle
    /\ WebIdle
    /\ CommandLineIdle
    /\ ClassifyIdle
    /\ twin = NoTwin
    /\ leadsCache \in {Null, EmptyLeadsCache}
    /\ progressCache \in {Null, EmptyProgress}
    /\ serverStatus = [id \in LeadIds |-> "none"]
    /\ lastEvent = <<>>
    /\ applied = 0

\* The handler of "leads-updated": both updaters run on the event's leads.
Handle(updatedLeads) ==
    /\ applied < MaxEvents
    /\ applied' = applied + 1
    /\ lastEvent' = updatedLeads
    /\ leadsCache' = MergeLeads(leadsCache, updatedLeads)
    /\ progressCache' = UpdateProgress(progressCache, updatedLeads)

\* Any event arrives on the channel.
ReceiveEvent(updatedLeads) ==
    /\ applied < MaxCacheEvents
    /\ Handle(updatedLeads)
    /\ UNCHANGED <<apoVars, scoreVars, evalVars, webVars, cliVars, classifyVars, twin,
                   serverStatus>>

NextCache == \E updatedLeads \in Events : ReceiveEvent(updatedLeads)

SpecCache == InitClient /\ [][NextCache]_vars

\* The statuses a lead goes through on the server.
NextStatuses ==
    [none |-> {"pending"}, pending |-> {"processing"}, processing |-> {"completed", "error"},
     error |-> {"processing"}, completed |-> {}]
ScoreWith(status) == IF status = "completed" THEN 80 ELSE NoScore

\* Leads are uploaded and the event that reports them is handled.
LeadsUploaded(ids) ==
    /\ ids # {}
    /\ \A id \in ids : serverStatus[id] = "none"
    /\ serverStatus' = [id \in LeadIds |-> IF id \in ids THEN "pending" ELSE serverStatus[id]]
    /\ Handle(SelectSeq([id \in LeadIds |-> [id |-> id, status |-> "pending",
                                             score |-> NoScore]],
                        LAMBDA l : l.id \in ids))
    /\ UNCHANGED <<apoVars, scoreVars, evalVars, webVars, cliVars, classifyVars, twin>>

\* A lead changes status and the event that reports it is handled.
StatusChanges(id, status) ==
    /\ serverStatus[id] \in {"pending", "processing", "error"}
    /\ status \in NextStatuses[serverStatus[id]]
    /\ serverStatus' = [serverStatus EXCEPT ![id] = status]
    /\ Handle(<<[id |-> id, status |-> status, score |-> ScoreWith(status)]>>)
    /\ UNCHANGED <<apoVars, scoreVars, evalVars, webVars, cliVars, classifyVars, twin>>

NextProgress ==
    \/ \E ids \in SUBSET LeadIds : LeadsUploaded(ids)
    \/ \E id \in LeadIds, status \in {"processing", "completed", "error"} :
          StatusChanges(id, status)

SpecProgress == InitClient /\ [][NextProgress]_vars

\* ------------------------------------------------------------ properties
\* The beam is at rest: it was populated, and no iteration is pushing on it.
BeamAtRest == {"saveInit", "loop", "saveIter", "earlyStop", "finalize", "clear",
               "writePrompt", "writeReport"}

RecordedScores(rep) ==
    {rep.baselineScore} \cup
    UNION {{rep.iterations[k].candidates[j].score :
                j \in DOMAIN rep.iterations[k].candidates} :
           k \in DOMAIN rep.iterations}

\* C1: once the beam is populated (fresh start or restore) and after every
\* iteration, it holds at most config.beamWidth candidates and beam[0] has the
\* lowest MAE of the beam.
C1_BeamBoundedAndSorted ==
    pc \in BeamAtRest =>
        /\ Len(beam) <= config.beamWidth
        /\ \A i \in DOMAIN beam : beam[1].score <= beam[i].score

\* C2: improvement is previousBestScore - beam[0].score after truncation; an
\* iteration with improvement below the threshold adds one to the stagnation
\* counter and any other resets it to 0; after two consecutive iterations of a
\* loop below the threshold the loop starts no further iteration: it ends
\* there, whatever is left up to maxIterations.
C2_EarlyStop ==
    /\ [][(pc = "evaluate" /\ pc' = "saveIter") =>
            LET improvement == previousBestScore - beam'[1].score
            IN /\ improvement < config.earlyStopThreshold =>
                      stagnantIterations' = stagnantIterations + 1
               /\ improvement >= config.earlyStopThreshold =>
                      stagnantIterations' = 0]_vars
    /\ [](procStagnant >= 2 =>
            /\ pc \in {"saveIter", "earlyStop", "finalize", "clear",
                       "writePrompt", "writeReport"}
            /\ iteration <= config.maxIterations)

\* C2's case: the loop ended by early stop with iterations left.
C2_Witness ==
    /\ pc = "finalize"
    /\ procStagnant >= 2
    /\ iteration < config.maxIterations

\* C3 as stated: a run resumed from a checkpoint, with the same configuration,
\* ends with a finalBestScore no higher than that of the same run left to
\* continue without interruption.
C3_ResumeNoWorseThanUninterrupted ==
    (pc = "clear" /\ checkpoint # Null /\ twin # NoTwin /\ twin.pc = "done") =>
        report.finalBestScore <= twin.finalBestScore

\* C3 amended: a run resumed from a checkpoint ends with a finalBestScore no
\* higher than the best score the checkpoint holds.
C3_ResumeNoWorseThanCheckpoint ==
    (pc = "clear" /\ checkpoint # Null) =>
        /\ report.finalBestScore <= checkpoint.beam[1].score
        /\ report.finalBestScore <= checkpoint.previousBestScore

\* C3's case: the resumed run and the uninterrupted run both finished, and the
\* resumed run did better than its checkpoint.
C3_Witness ==
    /\ pc = "clear"
    /\ checkpoint # Null
    /\ twin # NoTwin
    /\ twin.pc = "done"
    /\ checkpoint.completedIterations >= 1
    /\ report.finalBestScore < checkpoint.beam[1].score

\* C4: when the process is interrupted, the checkpoint on disk is one of the
\* interrupted run and records every iteration the run had completed.
C4_InterruptLosesAtMostOneIteration ==
    (pc = "off" /\ lastExit = "killed" /\ hadCheckpoint) =>
        /\ checkpointFile.kind = "valid"
        /\ checkpointFile.run = runId
        /\ checkpointFile.completedIterations = completed

\* C5: a process that ends with an uncaught exception has written neither
\* output file, and the checkpoint it last loaded or saved is still on disk.
C5_FailureKeepsCheckpoint ==
    (pc = "off" /\ lastExit = "error") =>
        /\ promptFile # launches
        /\ reportFile # launches
        /\ hadCheckpoint =>
              /\ checkpointFile.kind = "valid"
              /\ checkpointFile.run = runId
              /\ checkpointFile.completedIterations = completed

\* C6: on resume from a checkpoint with completedIterations = N only beam[0] is
\* evaluated again, previousBestScore and the stagnation counter are the
\* checkpoint's, the first iteration executed is N+1, and every checkpoint the
\* run writes advances completedIterations by one, up to maxIterations.
C6_ResumeContinues ==
    /\ [][(pc = "init" /\ checkpoint # Null /\ pc' = "loop") =>
            /\ iteration' = checkpoint.completedIterations + 1
            /\ previousBestScore' = checkpoint.previousBestScore
            /\ stagnantIterations' = checkpoint.stagnantIterations
            /\ {i \in DOMAIN beam' : beam'[i].predictions} = {1}
            /\ report'.totalLLMCalls =
                  checkpoint.report.totalLLMCalls + EvalSetLength]_vars
    /\ [](pc \in {"evaluate", "saveIter", "earlyStop"} /\ checkpoint # Null =>
            /\ iteration > checkpoint.completedIterations
            /\ iteration <= config.maxIterations)
    /\ [][(checkpointFile.kind = "valid" /\ checkpointFile'.kind = "valid"
           /\ checkpointFile'.run = checkpointFile.run
           /\ checkpointFile' # checkpointFile) =>
            checkpointFile'.completedIterations =
                checkpointFile.completedIterations + 1]_vars

\* C6's case: a resumed process executes the iteration after the checkpoint's.
C6_Witness ==
    /\ pc = "saveIter"
    /\ checkpoint # Null
    /\ checkpoint.completedIterations >= 1
    /\ iteration = checkpoint.completedIterations + 1
    /\ Len(beam) = 2

\* C7: under --resume with a missing or unreadable checkpoint file,
\* loadCheckpoint returns null, nothing is thrown, and the run starts as a
\* fresh run does: baseline evaluated, beam of the baseline alone, stagnation
\* counter 0, first iteration 1.
C7_UnreadableCheckpointStartsFresh ==
    (resume /\ loadedKind \in {"none", "corrupt"}) =>
        /\ checkpoint = Null
        /\ pc # "loop" \/ hadCheckpoint
        /\ pc = "saveInit" =>
              /\ Len(beam) = 1
              /\ beam[1].prompt = BASE_PROMPT
              /\ beam[1].iteration = 0
              /\ beam[1].score = report.baselineScore
              /\ previousBestScore = report.baselineScore
              /\ report.iterations = <<>>
              /\ stagnantIterations = 0
              /\ iteration = 1

\* C7's case: --resume found a checkpoint file that is not JSON, and the
\* baseline has been evaluated.
C7_Witness ==
    /\ resume
    /\ loadedKind = "corrupt"
    /\ pc = "saveInit"

\* C8 as stated: the finalized report carries beam[0], whose MAE is the lowest
\* any evaluation of the run returned.
C8_FinalIsLowestEvaluated ==
    pc = "clear" =>
        /\ report.finalBestPrompt = beam[1].prompt
        /\ report.finalBestScore = beam[1].score
        /\ report.finalBestAccuracy = beam[1].accuracy
        /\ report.finalBestScore = lowestEvaluated[runId]
        /\ report.improvement = report.baselineScore - report.finalBestScore

\* C8 amended: the finalized report carries beam[0], whose MAE is the lowest
\* among the baseline and the candidates of the iterations the report records.
C8_FinalIsLowestRecorded ==
    pc = "clear" =>
        /\ report.finalBestPrompt = beam[1].prompt
        /\ report.finalBestScore = beam[1].score
        /\ report.finalBestAccuracy = beam[1].accuracy
        /\ report.finalBestScore \in RecordedScores(report)
        /\ \A s \in RecordedScores(report) : report.finalBestScore <= s
        /\ report.improvement = report.baselineScore - report.finalBestScore

\* C8's case: a run of at least two iterations is finalized with a candidate
\* that beat the baseline.
C8_Witness ==
    /\ pc = "clear"
    /\ Len(report.iterations) >= 2
    /\ report.finalBestScore < report.baselineScore

\* C9: an iteration that starts with b candidates and generates c prompts
\* leaves min(beamWidth, b + c) candidates in the beam, the lowest-MAE ones of
\* the b + c, and its report entry lists c candidates.
C9_Selection ==
    [][(pc = "evaluate" /\ pc' = "saveIter") =>
          LET n == Len(beam)
              k == Len(beam')
              entry == report'.iterations[Len(report'.iterations)]
          IN /\ n = beamStartLen + Len(newPrompts)
             /\ k = Min(config.beamWidth, beamStartLen + Len(newPrompts))
             /\ \E keep \in SUBSET (1..n) :
                   /\ Cardinality(keep) = k
                   /\ \A i \in keep : \E j \in 1..k : beam'[j] = beam[i]
                   /\ \A j \in 1..k : \E i \in keep : beam'[j] = beam[i]
                   /\ \A i \in keep, d \in (1..n) \ keep :
                         beam[i].score <= beam[d].score
             /\ entry.iteration = iteration
             /\ Len(entry.candidates) = Len(newPrompts)]_vars

\* C9's case: the first iteration generated 2 prompts with a beam width of 2.
C9_Witness ==
    /\ pc = "saveIter"
    /\ beamStartLen = 1
    /\ Len(newPrompts) = 2
    /\ config.beamWidth = 2
    /\ Len(beam) = 2
    /\ Len(report.iterations) = 1
    /\ Len(report.iterations[1].candidates) = 2

\* C10: whatever generateText does, the score that scoreLeadWithPrompt returns
\* lies between 0 and 10.
C10_PredictedInRange ==
    scPc = "returned" => (0 <= scPredicted /\ scPredicted <= 100)

\* C10's case: a score field above 10 was clamped to 10.
C10_Witness ==
    /\ scPc = "returned"
    /\ scResponse.kind = "text"
    /\ scResponse.text.json = "scoreNumber"
    /\ scResponse.text.score > 100
    /\ scPredicted = 100

\* C11: the predicted score is the numeric score field when the text is JSON
\* that has one; otherwise the first decimal number found in the text; and the
\* default 5 only when the text yields neither, the distance to the expected
\* score being then |5 - expected|.
C11_ParseOrder ==
    (scPc = "returned" /\ scResponse.kind = "text") =>
        LET text == scResponse.text
        IN /\ text.json = "scoreNumber" => scPredicted = Clamp(text.score)
           /\ (text.json # "scoreNumber" /\ text.firstNumber # NoNumber) =>
                  scPredicted = Clamp(text.firstNumber)
           /\ (text.json # "scoreNumber" /\ text.firstNumber = NoNumber) =>
                  /\ scPredicted = DefaultScore
                  /\ Abs(scPredicted - scExpected) = Abs(DefaultScore - scExpected)

\* The records that were scored, the calls in flight, and the score that the
\* answer given for a record amounts to.
Scored == {i \in DOMAIN evCalls : evCalls[i] > 0}
InFlight == {i \in DOMAIN evCalls : evCalls[i] > 0 /\ evResponse[i] = Null}
Thrown == {i \in DOMAIN evResponse : evResponse[i].kind = "throws"}
ScoreFor(i) == scoreLeadWithPrompt(evResponse[i])

\* C12: a scoring call that throws gives its record the predicted score 5 and
\* leaves the other records' predictions as their own answers make them; no
\* record is scored twice; the pass never stops short of returning, and it
\* returns exactly one prediction for every record it was to score.
C12_ThrowIsLocal ==
    /\ \A i \in DOMAIN evCalls : evCalls[i] <= 1
    /\ evPc \in {"start", "batch", "awaiting"} => ENABLED NextEval
    /\ evPc = "returned" =>
          /\ Len(predictions) = Len(leads)
          /\ \A k \in DOMAIN predictions :
                /\ predictions[k].lead = leads[k]
                /\ predictions[k].lead.name \in Thrown =>
                      predictions[k].predicted = 50
                /\ predictions[k].lead.name \notin Thrown =>
                      predictions[k].predicted = ScoreFor(predictions[k].lead.name)

\* C12's case: a pass of two batches returned, one call of which threw.
C12_Witness ==
    /\ evPc = "returned"
    /\ Cardinality(Thrown) = 1
    /\ Len(predictions) > CHUNK_SIZE
    /\ \E k \in DOMAIN predictions :
          /\ predictions[k].lead.name \in Thrown
          /\ predictions[k].predicted = 50
          /\ predictions[k].error = Abs(50 - predictions[k].expected)

\* The distance between the score a record's answer amounts to and the score
\* expected for it, summed over the first n records to score, and the number
\* of records to score whose distance is at most 1.
Distance(k) == Abs(ScoreFor(leads[k].name) - leads[k].expectedScore)
RECURSIVE DistanceSum(_)
DistanceSum(n) == IF n = 0 THEN 0 ELSE DistanceSum(n - 1) + Distance(n)
CloseCount == Cardinality({k \in DOMAIN leads : Distance(k) <= 10})

\* C13: evaluatePrompt returns as MAE the sum of |predicted - expected| over
\* the n records evaluated divided by n, and as accuracy the number of those
\* records with |predicted - expected| <= 1 divided by n.
C13_Metrics ==
    evPc = "returned" =>
        /\ evResult.mae.den = Len(leads)
        /\ evResult.mae.num = DistanceSum(Len(leads))
        /\ evResult.accuracy.den = Len(leads)
        /\ evResult.accuracy.num = CloseCount

\* C13's case: expected [2, 5, 8, 10] scored [3, 5, 6, 10] gives MAE
\* (1 + 0 + 2 + 0) / 4 and accuracy 3 / 4.
C13_Witness ==
    /\ evPc = "returned"
    /\ [k \in DOMAIN predictions |-> predictions[k].expected] = <<20, 50, 80, 100>>
    /\ [k \in DOMAIN predictions |-> predictions[k].predicted] = <<30, 50, 60, 100>>
    /\ evResult.mae = [num |-> 30, den |-> 4]
    /\ evResult.accuracy = [num |-> 3, den |-> 4]

\* C14: at most 25 scoring calls of a pass are in flight at any time; calls
\* are issued only when none is in flight, a whole batch at once (25 of them,
\* or what is left); and the predictions returned are in the order of the
\* records to score.
C14_Batches ==
    /\ [](Cardinality(InFlight) <= 25)
    /\ [][evCalls' # evCalls =>
            /\ InFlight = {}
            /\ Scored = {leads[k].name : k \in 1..Len(predictions)}
            /\ Cardinality(InFlight') = Min(25, Len(leads) - Len(predictions))
            /\ InFlight' = {leads[k].name :
                               k \in (Len(predictions) + 1)..
                                     (Len(predictions) + Cardinality(InFlight'))}]_vars
    /\ [](evPc = "returned" =>
            /\ Len(predictions) = Len(leads)
            /\ \A k \in DOMAIN predictions : predictions[k].lead = leads[k])

\* C14's case: the first batch of 25 has settled and the second is in flight.
C14_Witness ==
    /\ evPc = "awaiting"
    /\ Len(predictions) = 25
    /\ InFlight # {}
    /\ Len(leads) > 25

\* C15: with a subset size N evaluatePrompt scores the first min(N, number of
\* records) records of the evaluation set, in file order, and no others;
\* without a subset size it scores every record.
C15_Subset ==
    LET wanted == IF subsetSize.given
                  THEN SubSeq(evalSet, 1, Min(subsetSize.n, Len(evalSet)))
                  ELSE evalSet
    IN /\ evPc \in {"batch", "awaiting", "returned"} => leads = wanted
       /\ evPc = "returned" =>
             /\ Scored = {wanted[k].name : k \in DOMAIN wanted}
             /\ [k \in DOMAIN predictions |-> predictions[k].lead] = wanted

\* The calls of generateCandidatePrompts that resolved, in call order.
Resolved(outcomes) ==
    {i \in DOMAIN outcomes : outcomes[i] = "ok"}

\* C16: a generation call that fails is skipped and nothing else: the prompts
\* returned are those of the calls that resolved, in call order (possibly
\* none); the process does not fail there or while it evaluates them; and the
\* iteration selects the beam, updates the stagnation counter, adds its report
\* entry and writes its checkpoint with the candidates it has.
C16_GenerationFailureIsLocal ==
    /\ [][(pc = "loop" /\ pc' = "evaluate") =>
            /\ Len(genOutcomes') = config.candidatesPerIteration
            /\ Len(newPrompts') = Cardinality(Resolved(genOutcomes'))
            /\ \A k \in DOMAIN newPrompts' : newPrompts'[k] \in Resolved(genOutcomes')
            /\ \A j, k \in DOMAIN newPrompts' : j < k => newPrompts'[j] < newPrompts'[k]]_vars
    /\ [][(pc \in {"loop", "evaluate"} /\ pc' = "off") => lastExit' = "killed"]_vars
    /\ [][(pc = "evaluate" /\ pc' = "saveIter") =>
            LET entry == report'.iterations[Len(report'.iterations)]
            IN /\ Len(report'.iterations) = Len(report.iterations) + 1
               /\ entry.iteration = iteration
               /\ Len(entry.candidates) = Cardinality(Resolved(genOutcomes))
               /\ {beam[i].prompt : i \in (beamStartLen + 1)..Len(beam)}
                      = {<<iteration, c>> : c \in Resolved(genOutcomes)}
               /\ Len(beam') >= 1
               /\ entry.bestScore = beam'[1].score
               /\ stagnantIterations' \in {0, stagnantIterations + 1}]_vars
    /\ [][(pc = "saveIter" /\ pc' = "earlyStop") =>
            /\ checkpointFile'.kind = "valid"
            /\ checkpointFile'.completedIterations = iteration
            /\ checkpointFile'.report = report
            /\ Len(checkpointFile'.beam) = Len(beam)]_vars

\* C16's case: the first generation call of an iteration failed and the second
\* did not, and the iteration wrote its checkpoint with that one candidate.
C16_Witness ==
    /\ pc = "earlyStop"
    /\ genOutcomes = <<"throws", "ok">>
    /\ checkpointFile.kind = "valid"
    /\ checkpointFile.completedIterations = iteration
    /\ Len(report.iterations[Len(report.iterations)].candidates) = 1

\* C16 again: every generation call of an iteration failed, and the iteration
\* wrote its checkpoint.
C16_WitnessNone ==
    /\ pc = "earlyStop"
    /\ genOutcomes = <<"throws", "throws">>
    /\ checkpointFile.kind = "valid"
    /\ checkpointFile.completedIterations = iteration
    /\ report.iterations[Len(report.iterations)].candidates = <<>>

\* The count the report started from: the checkpoint's on resume, else 0.
CallsBefore == IF checkpoint = Null THEN 0 ELSE checkpoint.report.totalLLMCalls

\* C17: when the run is finalized, report.totalLLMCalls is the number of
\* generateText calls issued: one per record scored in every evaluation pass
\* and one per generation call.
C17_TotalCallsAreIssuedCalls ==
    pc = "clear" => report.totalLLMCalls = CallsBefore + issuedCalls


\* ---- the web application
InFlightPcs == {"findById", "updateStatus", "scoreLead", "updateScore", "create", "catch"}
ExecutionsOn(id) ==
    {e \in 1..MaxExecutions : executions[e].leadId = id /\ executions[e].pc \in InFlightPcs}
Ends(e) ==
    /\ executions[e].pc \in InFlightPcs
    /\ executions'[e].pc \in {"returned", "thrown"}
Settled(row) ==
    \/ row.status = "completed" /\ row.score # NoScore
    \/ row.status = "error" /\ row.errorMessage # "null"

\* C18: an execution of ScoreLeadCommand.execute on a stored lead that is not
\* completed has set the lead to 'processing' when it calls the scoring
\* service, and when it returns or throws (no other execution being at work on
\* the lead) the lead is 'completed' with a score or 'error' with a message; a
\* lead is 'processing' only while an execution is at work on it.
C18_ProcessingThenSettled ==
    /\ [](\A id \in LeadIds :
            leadsTable[id].status = "processing" => ExecutionsOn(id) # {})
    /\ [][\A e \in 1..MaxExecutions :
            /\ (executions[e].pc = "updateStatus" /\ executions'[e].pc = "scoreLead")
                   => leadsTable'[executions[e].leadId].status = "processing"
            /\ (/\ Ends(e)
                /\ leadsTable[executions[e].leadId].stored
                /\ leadsTable[executions[e].leadId].status # "completed"
                /\ ExecutionsOn(executions[e].leadId) = {e})
                   => Settled(leadsTable'[executions[e].leadId])]_vars


\* C19: when POST /api/leads/upload answers with success, every lead that the
\* upload newly stored has status 'pending' and one scoreLeadWorkflow has been
\* started for it.
C19_UploadEnqueues ==
    [][(uploads' = uploads + 1 /\ lastUpload'.status = 200)
          => \A id \in lastUpload'.leadIds :
                /\ leadsTable'[id].status = "pending"
                /\ workflows'[id] = workflows[id] + 1]_vars


WorkflowsOn(id) ==
    {e \in 1..MaxExecutions :
        executions[e].leadId = id /\ executions[e].pc \in InFlightPcs \cup {"returned", "thrown"}}
Broadcast(id) ==
    \E k \in 1..Len(channel) : channel[k].event = "leads-updated" /\ id \in channel[k].leads

\* C20: once a lead has been scored (its status is 'completed' or 'error')
\* and the workflows that worked on it have ended, a "leads-updated" event
\* that carries the lead has been broadcast.
C20_ScoredIsBroadcast ==
    \A id \in LeadIds :
        (leadsTable[id].status \in {"completed", "error"} /\ WorkflowsOn(id) = {})
            => Broadcast(id)


\* ---- main's command line
Flag(word) == [dashes |-> TRUE, body |-> word]
HasArg(arg) == \E i \in DOMAIN argv : argv[i] = arg
FlagWithValue(word) ==
    \E i \in DOMAIN argv :
        /\ argv[i] = Flag(word)
        /\ i + 1 <= Len(argv)
        /\ ~argv[i + 1].dashes
        /\ argv[i + 1].body # ""

\* C21: when main has parsed the command line, resume is set exactly when
\* --resume was given, a config field differs from its default only when its
\* flag (--iterations, --candidates, --beam, --subset) was given followed by
\* a value, earlyStopThreshold is the default, and the process exits with 0
\* when runAPO and saveResults return and with 1 when one of them throws.
C21_CommandLine ==
    argPc # "loop" =>
        /\ argResume <=> HasArg(Flag("resume"))
        /\ \A word \in DOMAIN FieldOf :
              argConfig[FieldOf[word]] # DEFAULT_CONFIG[FieldOf[word]] => FlagWithValue(word)
        /\ argConfig.earlyStopThreshold = DEFAULT_CONFIG.earlyStopThreshold
        /\ argPc = "returned" => argExit = 0
        /\ argPc = "thrown" => argExit = 1


\* ---- executeScoring's catch
NotFound(error) == error.isError /\ error.message[1] = "Lead not found:"
RateLimited(error) ==
    /\ error.isError
    /\ \/ \E i \in DOMAIN error.message : error.message[i] \in {"rate limit", "Rate Limit", "429"}
       \/ 429 \in {error.status, error.causeStatus}
RetryAfterText(error) ==
    IF error.headers.kind = "Headers" /\ error.headers.has THEN error.headers.text ELSE <<>>
AllDigits(text) == text # <<>> /\ \A i \in DOMAIN text : text[i] \in {"0", "1"}
LeadingDigits(text) ==
    CHOOSE k \in 0..Len(text) :
        /\ \A i \in 1..k : text[i] \in {"0", "1"}
        /\ k < Len(text) => text[k + 1] \notin {"0", "1"}
Classified == clPc = "thrown"

UploadAnswered == uploads' = uploads + 1

\* C23: no identity (first name, last name, job title, account name) is stored
\* in more than one row; an upload leaves the row of every identity that was
\* already stored as it was (status, score, error message, processed_at), and
\* the count and leadIds of a successful upload are those of the rows it
\* inserted.
C23_UniqueIdentity ==
    /\ [](\A id \in LeadIds : leadsTable[id].copies <= 1)
    /\ [][UploadAnswered =>
            /\ \A id \in LeadIds : leadsTable[id].stored => leadsTable'[id] = leadsTable[id]
            /\ lastUpload'.status = 200 =>
                  /\ lastUpload'.leadIds =
                        {id \in LeadIds : ~leadsTable[id].stored /\ leadsTable'[id].stored}
                  /\ lastUpload'.count = Cardinality(lastUpload'.leadIds)]_vars

\* A file whose rows were all stored already has been uploaded with success,
\* after a lead was scored.
C23_Witness ==
    /\ lastUpload.status = 200
    /\ lastUpload.count = 0
    /\ \E id \in LeadIds : leadsTable[id].status = "completed" /\ uploads = 2


\* ---- the loop of runAPO, continued
IterationStarts == pc = "loop" /\ iteration <= config.maxIterations

\* C24: when an iteration of the loop starts, the first one after a resume
\* included, the beam is not empty and beam[0] has its predictions, from
\* which the worst cases given to the generator are taken.
C24_BestHasPredictions ==
    IterationStarts => (Len(beam) >= 1 /\ beam[1].predictions)

\* An iteration starts in a resumed run whose second candidate came from the
\* checkpoint without predictions, after the resumed run completed an iteration.
C24_Witness ==
    /\ IterationStarts
    /\ checkpoint # Null
    /\ iteration > checkpoint.completedIterations + 1
    /\ Len(beam) = 2
    /\ ~beam[2].predictions


\* C25: no iteration starts while the stagnation counter is at 2 or more,
\* in a fresh run and in a run resumed from any checkpoint.
C25_NoIterationWhenStagnant ==
    IterationStarts => stagnantIterations < StagnationLimit


\* ---- the leads table
\* C26: in every state reached through uploads and executions of
\* ScoreLeadCommand.execute, failing ones included, a stored lead has a score
\* exactly when its status is 'completed'.
C26_ScoreIffCompleted ==
    \A id \in LeadIds :
        leadsTable[id].stored =>
            (leadsTable[id].score # NoScore <=> leadsTable[id].status = "completed")


\* C27: whatever the interleaving of two executions of
\* ScoreLeadCommand.execute for one lead, the scoring service answers with a
\* score at most once for the lead and at most one ai_usage record is
\* created for it.
ScoredFor(id) ==
    {e \in 1..MaxExecutions :
        /\ executions[e].leadId = id
        /\ executions[e].lead \notin {"none", "completed"}
        /\ executions[e].score # NoScore}
C27_ScoredAtMostOnce ==
    \A id \in LeadIds : Cardinality(ScoredFor(id)) <= 1 /\ aiUsage[id] <= 1


\* C28: ScoreLeadCommand.execute on a lead whose status is 'completed' returns
\* the stored score with zero tokens and writes nothing: from the read of the lead to the
\* return, its steps leave the lead's row and the ai_usage table as they are,
\* and it calls neither the scoring service nor the workflow's other steps.
C28_CompletedIsLeftAlone ==
    [][\A e \in 1..MaxExecutions :
          (/\ executions[e].pc = "findById"
           /\ executions'[e].pc # "findById"
           /\ leadsTable[executions[e].leadId].status = "completed"
           /\ executions'[e].pc # "thrown")
             => /\ executions'[e].pc = "returned"
                /\ executions'[e].score = leadsTable[executions[e].leadId].score
                /\ executions'[e].tokens = "0"
                /\ leadsTable' = leadsTable
                /\ aiUsage' = aiUsage]_vars

\* An execution has returned early for a lead that another one had completed.
C28_Witness ==
    \E e \in 1..MaxExecutions :
        /\ executions[e].pc \in {"returned", "done"}
        /\ executions[e].lead = "completed"
        /\ executions[e].score = 80
        /\ aiUsage[executions[e].leadId] = 1


\* ---- the client's caches
\* C29: while the events handled report every status change of every lead
\* once and in order, the cached progress counters are consistent after
\* each event: total = pending + processing + completed + error, and no
\* counter is negative.
C29_ProgressConsistent ==
    progressCache # Null =>
        /\ progressCache.total = progressCache.pending + progressCache.processing
                                    + progressCache.completed + progressCache.error
        /\ \A field \in DOMAIN progressCache : progressCache[field] >= 0

CachedIds(data) == {data.leads[i].id : i \in DOMAIN data.leads}
DistinctIds(list) == \A i, j \in DOMAIN list : list[i].id = list[j].id => i = j
EventHandled == applied' = applied + 1 /\ leadsCache # Null
AfterMerge ==
    /\ \A i \in DOMAIN lastEvent' :
          \E k \in DOMAIN leadsCache'.leads : leadsCache'.leads[k] = MapGet(lastEvent', lastEvent'[i].id)
    /\ \A k \in DOMAIN leadsCache'.leads :
          \/ HasLead(lastEvent', leadsCache'.leads[k].id)
                /\ leadsCache'.leads[k] = MapGet(lastEvent', leadsCache'.leads[k].id)
          \/ ~HasLead(lastEvent', leadsCache'.leads[k].id)
                /\ \E i \in DOMAIN leadsCache.leads : leadsCache.leads[i] = leadsCache'.leads[k]
    /\ \A i \in DOMAIN leadsCache.leads :
          ~HasLead(lastEvent', leadsCache.leads[i].id)
              => \E k \in DOMAIN leadsCache'.leads : leadsCache'.leads[k] = leadsCache.leads[i]
    /\ leadsCache'.total = leadsCache.total + Cardinality(CachedIds(leadsCache') \ CachedIds(leadsCache))

====
